---- MODULE Spec2Model ----
(***************************************************************************)
(* A model of the texlab language server's message loop (src/src/server.rs)*)
(* : the document set held in the salsa database, the legacy workspace     *)
(* handed to forked jobs, the thread pool, the build lock, and the         *)
(* internal and output channels.                                           *)
(***************************************************************************)
EXTENDS Integers, Sequences, FiniteSets, TLC

\* ------------------------------------------------------------------ bounds
\* Longest document text the model explores.
MaxLen == 3
\* Number of requests and pool jobs the server takes in one run, and in a
\* run of the read pipeline and of the builds.
MaxIds == 3
ReadIds == 2
BuildIds == 2
\* Threads of the pool (threadpool's default is the number of CPUs).
PoolSize == 2
\* Messages the internal channel holds at once.
MaxInternal == 1
\* Content changes in one didChange notification.
MaxBatch == 2
\* Largest line / column number a client position carries.
MaxPos == 2

\* ------------------------------------------------------------------ values
NL == "\n"
\* An include directive, one token of the text: \bibliography{refs}.
BibTok == "\\bibliography{refs}"
\* \input{chap} and \input{main}: the includes two TeX files name each
\* other with.
ChapTok == "\\input{chap}"
MainTok == "\\input{main}"
\* The characters a client types in the runs explored.
Char == {"a", NL}

Min(a, b) == IF a < b THEN a ELSE b

RECURSIVE SeqsUpTo(_)
\* All texts of at most n characters.
SeqsUpTo(n) ==
  IF n = 0 THEN {<<>>}
  ELSE LET S == SeqsUpTo(n - 1)
       IN S \cup {Append(s, c) : s \in {x \in S : Len(x) = n - 1}, c \in Char}

Texts == SeqsUpTo(MaxLen)

\* Documents the clients and the watcher name.  A URI stands for its file
\* path as well (Url::from_file_path is a bijection on file URIs).
TexUri == "main.tex"
BibUri == "refs.bib"
TxtUri == "notes.txt"
ChapUri == "chap.tex"
Uri == {TexUri, BibUri, TxtUri, ChapUri}
\* The documents of the runs that explore the document lifecycle.
DocUris == {TexUri, TxtUri}

Positions == [line : 0..MaxPos, character : 0..MaxPos]

\* ------------------------------------------------------- language / owner
\* Language::from_id(language_id).unwrap_or(Language::Tex) in did_open.
LanguageFromId(id) ==
  IF id \in {"bibtex"} THEN "Bib" ELSE "Tex"

\* Language::from_path: the extension decides; None (<<>>) when it maps to
\* no recognized language.
LanguageFromPath(p) ==
  CASE p \in {TexUri, ChapUri} -> <<"Tex">>
    [] p = BibUri -> <<"Bib">>
    [] OTHER -> <<>>

\* ------------------------------------------------------------- line index
\* The offsets (1-based indices) of the newline characters of t.
Newlines(t) == {i \in 1..Len(t) : t[i] = NL}

LineCount(t) == 1 + Cardinality(Newlines(t))

\* Byte offset at which line l (0-based) starts.
LineStart(t, l) ==
  IF l = 0 THEN 0
  ELSE CHOOSE i \in Newlines(t) : Cardinality({j \in Newlines(t) : j < i}) = l - 1

\* Byte offset of the end of line l, its newline excluded.
LineEnd(t, l) ==
  IF l + 1 < LineCount(t) THEN LineStart(t, l + 1) - 1 ELSE Len(t)

\* LineIndex::offset_lsp: a position to a byte offset, clamped to the text.
OffsetLsp(t, pos) ==
  IF pos.line >= LineCount(t) THEN Len(t)
  ELSE Min(LineStart(t, pos.line) + pos.character, LineEnd(t, pos.line))

\* Document::edit: replace the bytes s..e of t by new.
EditText(t, s, e, new) ==
  SubSeq(t, 1, s) \o new \o SubSeq(t, e + 1, Len(t))

\* ------------------------------------------------------------------ state
VARIABLES
  docs,       \* self.db: the document set, [loaded URI -> document]
  options,    \* self.db: the options in force
  caps,       \* self.db: the client capabilities given at initialize
  distro,     \* self.db: the distribution's file name database
  workspace,  \* self.workspace: the legacy workspace handed to forked jobs
  disk,       \* the file system, [path -> text]
  queue,      \* the pool's queue of jobs not yet started (ids)
  jobs,       \* [id -> request / job record]
  lock,       \* build_internal's static LOCK: the id holding it, or 0
  internal,   \* the internal channel (internal_tx -> internal_rx)
  out,        \* the output channel (connection.sender)
  nextId,     \* number of requests and jobs taken so far
  phase,      \* Server::run: "new", "running", "viewer", "shutdown", "joining", "failed",
              \* "exited"
  opened,     \* history: the URIs a didOpen named
  last,       \* history: the message the main thread handled last, or
              \* "job" after a step of a pool thread
  arg,        \* input of the pure function applied
  res,        \* its result
  pending,    \* the debouncer: the item it holds, <<>> when it holds none
  timer,      \* the debouncer: what is left of the pending item's delay
  sent,       \* history: the items sent to the debouncer
  quiet,      \* history: the time since the last item was sent
  actions,    \* ActionManager: the Vec<Action> inside the Mutex
  mutex,      \* ActionManager: the caller that holds the Mutex's guard, or 0
  calls,      \* [caller -> where it is in push or take, and its locals]
  log         \* history: the calls of push and take that returned, in order

vars == <<docs, options, caps, distro, workspace, disk, queue, jobs, lock, internal, out,
          nextId, phase, opened, last, arg, res, pending, timer, sent, quiet,
          actions, mutex, calls, log>>
poolVars == <<queue, jobs, lock>>
fnVars == <<arg, res>>
diagVars == <<pending, timer, sent, quiet>>
amVars == <<actions, mutex, calls, log>>

\* ------------------------------------------------------- document store
Put(f, k, v) == [x \in DOMAIN f \cup {k} |-> IF x = k THEN v ELSE f[x]]
Drop(f, k) == [x \in DOMAIN f \ {k} |-> f[x]]

\* Workspace::open: inserts or replaces the document.
Open(d, u, text, language, owner) ==
  Put(d, u, [text |-> text, language |-> language, owner |-> owner, cursor |-> 0])

\* Workspace::load: reads the file; a path that cannot be read is skipped.
Load(d, fs, p, language, owner) ==
  IF p \in DOMAIN fs THEN Open(d, p, fs[p], language, owner) ELSE d

\* The include directives of a text and the URI each resolves to.
IncludeTarget(tok) ==
  CASE tok = BibTok -> <<BibUri>>
    [] tok = ChapTok -> <<ChapUri>>
    [] tok = MainTok -> <<TexUri>>
    [] OTHER -> <<>>
Includes(text) ==
  {IncludeTarget(text[i])[1] : i \in {j \in 1..Len(text) : IncludeTarget(text[j]) # <<>>}}

\* The paths a round of discovery has tried.
Tried(tries) == {tries[i] : i \in DOMAIN tries}

\* A discovery that looks at the includes of the documents it was given
\* only, not at those of the documents it loads.
DiscoverOnce(d, fs, tries, loads) ==
  LET wanted == UNION {Includes(d[u].text) : u \in DOMAIN d}
      found == {p \in wanted : p \notin DOMAIN d /\ p \in DOMAIN fs
                                 /\ LanguageFromPath(p) # <<>>}
      pick(S) == CHOOSE q \in S : TRUE
      one == IF found = {} THEN d
             ELSE Load(d, fs, pick(found), LanguageFromPath(pick(found))[1], "Server")
  IN [docs |-> one,
      tries |-> IF found = {} THEN tries ELSE Append(tries, pick(found)),
      loads |-> IF found = {} THEN loads ELSE Append(loads, pick(found))]

RECURSIVE DiscoverRound(_, _, _, _)
\* One round of Workspace::discover: every include target that is neither
\* loaded nor tried in this round is tried once, and loaded as Server-owned
\* when it has a language and can be read; the includes of what was loaded
\* are walked in turn.  tries and loads list the paths tried and loaded.
DiscoverRound(d, fs, tries, loads) ==
  LET wanted == UNION {Includes(d[u].text) : u \in DOMAIN d}
      todo == {p \in wanted : p \notin DOMAIN d /\ p \notin Tried(tries)}
  IN IF todo = {} THEN [docs |-> d, tries |-> tries, loads |-> loads]
     ELSE LET p == CHOOSE q \in todo : TRUE
              next == IF LanguageFromPath(p) # <<>>
                      THEN Load(d, fs, p, LanguageFromPath(p)[1], "Server")
                      ELSE d
          IN DiscoverRound(next, fs, Append(tries, p),
                           IF next # d THEN Append(loads, p) ELSE loads)

\* Workspace::discover: the documents after the round.
Discover(d, fs) == DiscoverRound(d, fs, <<>>, <<>>).docs

\* ------------------------------------------------------- project graph
\* \documentclass{article}, one token of the text.
ClassTok == "\\documentclass{article}"

\* The include edges: a -> b when a holds an include that resolves to b and
\* both are loaded.
Edges(d) == {e \in (DOMAIN d) \X (DOMAIN d) : e[2] \in Includes(d[e[1]].text)}

\* A neighbourhood that follows the includes of u only.
AdjacentOut(d, u) == {v \in DOMAIN d : <<u, v>> \in Edges(d)}

\* The neighbours of u in the undirected projection of the edges.
Adjacent(d, u) == {v \in DOMAIN d : <<u, v>> \in Edges(d) \/ <<v, u>> \in Edges(d)}

RECURSIVE Reach(_, _, _)
\* Breadth-first search: seen so far, and the documents found last.
Reach(d, seen, frontier) ==
  IF frontier = {} THEN seen
  ELSE LET next == UNION {Adjacent(d, u) : u \in frontier} \ seen
       IN Reach(d, seen \cup next, next)

\* Workspace::related: the connected component of u.
Related(d, u) == Reach(d, {u}, {u})

\* A root selection that always falls back to the document itself.
RootSelf(d, u) == u

\* Where \documentclass stands in a text: 0 when it has none.
ClassAt(text) ==
  IF \E i \in 1..Len(text) : text[i] = ClassTok
  THEN CHOOSE i \in 1..Len(text) : text[i] = ClassTok /\ \A j \in 1..(i - 1) : text[j] # ClassTok
  ELSE 0

\* Workspace::root: the member of the component nothing includes when there
\* is exactly one; else a member whose \documentclass is closest to the top;
\* else the document itself.
Root(d, u) ==
  LET comp == Related(d, u)
      tops == {v \in comp : \A e \in Edges(d) : e[2] # v}
      classed == {v \in comp : ClassAt(d[v].text) > 0}
  IN IF Cardinality(tops) = 1 THEN CHOOSE v \in tops : TRUE
     ELSE IF classed # {}
          THEN CHOOSE v \in classed :
                 \A w \in classed : ClassAt(d[v].text) <= ClassAt(d[w].text)
          ELSE u

RECURSIVE ApplyStale(_, _, _)
\* A loop that converts every range with the line index of base, the text
\* before the batch.
ApplyStale(doc, base, batch) ==
  IF batch = <<>> THEN doc
  ELSE LET change == Head(batch)
           next == IF change.range # <<>>
                   THEN LET r == change.range[1]
                            s == Min(OffsetLsp(base, r.start), Len(doc.text))
                            e == Min(OffsetLsp(base, r.end), Len(doc.text))
                        IN [doc EXCEPT !.text = EditText(@, s, e, change.text)]
                   ELSE [doc EXCEPT !.text = change.text, !.cursor = 0]
       IN ApplyStale(next, base, Tail(batch))

ApplyChangesStale(doc, batch) == ApplyStale(doc, doc.text, batch)

\* A content change whose full replacement leaves the cursor where it was.
ApplyChangeKeepingCursor(doc, change) ==
  IF change.range # <<>>
  THEN LET r == change.range[1]
           s == OffsetLsp(doc.text, r.start)
           e == OffsetLsp(doc.text, r.end)
       IN [doc EXCEPT !.text = EditText(@, s, e, change.text)]
  ELSE [doc EXCEPT !.text = change.text]

\* One content change of did_change's loop (server.rs 389-410): a ranged
\* change is converted with the line index of the text as it is now.
ApplyChange(doc, change) ==
  IF change.range # <<>>
  THEN LET r == change.range[1]
           s == OffsetLsp(doc.text, r.start)
           e == OffsetLsp(doc.text, r.end)
       IN [doc EXCEPT !.text = EditText(@, s, e, change.text)]
  ELSE [doc EXCEPT !.text = change.text, !.cursor = 0]

RECURSIVE ApplyChanges(_, _)
\* did_change's loop over params.content_changes, in order.
ApplyChanges(doc, batch) ==
  IF batch = <<>> THEN doc
  ELSE ApplyChanges(ApplyChange(doc, Head(batch)), Tail(batch))

\* ------------------------------------------------------------ pool / jobs
\* An id that no request or job has taken.
FreeJob ==
  [pc |-> "free", method |-> "", uri |-> "", view |-> <<>>, ws |-> <<>>,
   fwd |-> FALSE, status |-> "", seen |-> <<>>, at |-> <<>>, reply |-> FALSE]

\* What a reader finds of document u in a view: <<>> when u is unknown.
Obs(view, u) == IF u \in DOMAIN view THEN <<view[u]>> ELSE <<>>

\* ParallelDatabase::snapshot (server.rs 114): the database as it is now.
Snapshot(d) == d

\* Server::fork (server.rs 129-137): a clone of self.workspace.
Fork(w) == w

\* lsp_server::Response::new_ok / new_err as sent on the output channel.
RespOk(id, body) == [id |-> id, ok |-> TRUE, code |-> "", message |-> "", body |-> body]
RespErr(id, code, message) ==
  [id |-> id, ok |-> FALSE, code |-> code, message |-> message, body |-> <<>>]

\* The jobs a pool thread is executing.
Active == {i \in 1..MaxIds : jobs[i].pc \notin {"free", "queued", "done"}}

\* A pool thread is free to take job id, the oldest of the queue.
PoolAlive == phase \in {"running", "viewer", "shutdown", "joining"}
CanStart(id) ==
  /\ PoolAlive
  /\ queue # <<>>
  /\ Head(queue) = id
  /\ Cardinality(Active) < PoolSize

\* The requests served by run_async_query and by handle_feature_request.
QueryMethods ==
  {"completion", "completionResolve", "documentLink", "foldingRange",
   "formatting", "inlayHint"}
ForkMethods ==
  {"references", "documentSymbol", "definition", "prepareRename", "rename",
   "documentHighlight"}
ReadMethods == QueryMethods \cup ForkMethods \cup {"hover", "workspaceSymbol"}

\* What a read is about: the text and the cursor of its document, or, for
\* workspaceSymbol, the documents there are.
DocFacts(view, u) ==
  IF u \in DOMAIN view
  THEN <<[text |-> view[u].text, cursor |-> view[u].cursor]>>
  ELSE <<>>
AllFacts(view) == <<[documents |-> DOMAIN view]>>

\* The pool's state as a handler threads it through its calls.
PoolState == [jobs |-> jobs, queue |-> queue, out |-> out, nextId |-> nextId]

\* ThreadPool::execute of a new job.
Execute(ps, job) ==
  LET id == ps.nextId + 1
  IN [ps EXCEPT !.jobs = [ps.jobs EXCEPT ![id] = [job EXCEPT !.pc = "queued"]],
                !.queue = Append(ps.queue, id),
                !.nextId = id]

\* A request answered by the main thread itself: no job is queued.
Answer(ps, job, response) ==
  LET id == ps.nextId + 1
  IN [ps EXCEPT !.jobs = [ps.jobs EXCEPT ![id] = [job EXCEPT !.pc = "done"]],
                !.out = Append(ps.out, [response EXCEPT !.id = id]),
                !.nextId = id]

\* A notification's job-less callback (|_| ()): nothing is sent.
Skip(ps, job) ==
  LET id == ps.nextId + 1
  IN [ps EXCEPT !.jobs = [ps.jobs EXCEPT ![id] = [job EXCEPT !.pc = "done"]],
                !.nextId = id]

\* The handler leaves the pool as ps.
SetPool(ps) ==
  /\ ps.nextId <= MaxIds
  /\ jobs' = ps.jobs
  /\ queue' = ps.queue
  /\ out' = ps.out
  /\ nextId' = ps.nextId

\* -------------------------------------------------- main thread: documents
\* Server::did_open (server.rs 355-376).
DidOpen(u, text, languageId) ==
  /\ phase = "running"
  /\ docs' = Discover(Open(docs, u, text, LanguageFromId(languageId), "Client"), disk)
  /\ opened' = opened \cup {u}
  /\ last' = [msg |-> "didOpen", uris |-> <<u>>]
  /\ UNCHANGED <<options, caps, distro, workspace, disk, poolVars, internal, out, nextId, phase, fnVars, diagVars, amVars>>

\* A did_change that runs discovery for an unknown document as well.
DidChangeDiscovering(u, batch) ==
  /\ phase = "running"
  /\ IF u \notin DOMAIN docs
     THEN docs' = Discover(docs, disk)
     ELSE /\ Len(ApplyChanges(docs[u], batch).text) <= MaxLen
          /\ docs' = Discover([docs EXCEPT ![u] = ApplyChanges(@, batch)], disk)
  /\ last' = [msg |-> "didChange", uris |-> <<u>>]
  /\ UNCHANGED <<options, caps, distro, workspace, disk, poolVars, internal, out, nextId, phase,
                 opened, fnVars, diagVars, amVars>>

\* Server::did_change (server.rs 378-421).
DidChange(u, batch) ==
  /\ phase = "running"
  /\ IF u \notin DOMAIN docs
     THEN UNCHANGED docs
     ELSE /\ Len(ApplyChanges(docs[u], batch).text) <= MaxLen
          /\ docs' = Discover([docs EXCEPT ![u] = ApplyChanges(@, batch)], disk)
  /\ last' = [msg |-> "didChange", uris |-> <<u>>]
  /\ UNCHANGED <<options, caps, distro, workspace, disk, poolVars, internal, out, nextId, phase,
                 opened, fnVars, diagVars, amVars>>

\* A did_close that removes the document.
CloseDocRemoving(d, u) == Drop(d, u)

\* The owner change of did_close (server.rs 446-451).
CloseDoc(d, u) ==
  IF u \in DOMAIN d THEN [d EXCEPT ![u].owner = "Server"] ELSE d

\* Server::did_close (server.rs 442-454).
DidClose(u) ==
  /\ phase = "running"
  /\ docs' = CloseDoc(docs, u)
  /\ last' = [msg |-> "didClose", uris |-> <<u>>]
  /\ UNCHANGED <<options, caps, distro, workspace, disk, poolVars, internal, out, nextId, phase,
                 opened, fnVars, diagVars, amVars>>

\* ------------------------------------------------- main thread: file events
\* A Create / Modify loop without the owner test.
LoadPathAnyOwner(d, fs, p) ==
  IF LanguageFromPath(p) # <<>>
  THEN Load(d, fs, p, LanguageFromPath(p)[1], "Server")
  ELSE d

\* A Remove loop without the owner test.
RemovePathAnyOwner(d, p) ==
  IF p \in DOMAIN d THEN Drop(d, p) ELSE d

\* The body of the Create / Modify loop for one path (server.rs 810-817).
LoadPath(d, fs, p) ==
  IF (p \notin DOMAIN d \/ d[p].owner = "Server") /\ LanguageFromPath(p) # <<>>
  THEN Load(d, fs, p, LanguageFromPath(p)[1], "Server")
  ELSE d

\* A Remove loop that leaves the document set as the empty set it swaps in.
RemovePathClearing(d, p) ==
  IF p \in DOMAIN d /\ d[p].owner = "Server" THEN <<>> ELSE d

\* The body of the Remove loop for one path (server.rs 822-835).
RemovePath(d, p) ==
  IF p \in DOMAIN d /\ d[p].owner = "Server" THEN Drop(d, p) ELSE d

RECURSIVE FileEventPaths(_, _, _, _)
\* `for path in event.paths` of Server::handle_file_event.
FileEventPaths(d, fs, kind, paths) ==
  IF paths = <<>> THEN d
  ELSE FileEventPaths(IF kind = "Remove" THEN RemovePath(d, Head(paths))
                      ELSE LoadPath(d, fs, Head(paths)),
                      fs, kind, Tail(paths))

\* Server::handle_file_event (server.rs 805-840).
HandleFileEvent(event) ==
  IF event.kind \in {"Create", "Modify", "Remove"}
  THEN FileEventPaths(docs, disk, event.kind, event.paths)
  ELSE docs

EventKinds == {"Create", "Modify", "Remove", "Access"}
EventPaths(uris) ==
  {<<p>> : p \in uris} \cup {<<TexUri, q>> : q \in uris \ {TexUri}}

\* FileWatcher's handle (server.rs 992-996): the watcher thread sends the
\* event on the internal channel.
WatcherEvent(kind, paths) ==
  /\ Len(internal) < MaxInternal
  /\ internal' = Append(internal, [type |-> "FileEvent", kind |-> kind, paths |-> paths])
  /\ UNCHANGED <<docs, options, caps, distro, workspace, disk, poolVars, out, nextId, phase,
                 opened, last, fnVars, diagVars, amVars>>

\* The file system changes under the server: a file is written or deleted.
FsWrite(p, text) ==
  /\ disk' = Put(disk, p, text)
  /\ disk' # disk
  /\ UNCHANGED <<docs, options, caps, distro, workspace, poolVars, internal, out, nextId, phase,
                 opened, last, fnVars, diagVars, amVars>>

FsDelete(p) ==
  /\ p \in DOMAIN disk
  /\ disk' = Drop(disk, p)
  /\ UNCHANGED <<docs, options, caps, distro, workspace, poolVars, internal, out, nextId, phase,
                 opened, last, fnVars, diagVars, amVars>>

\* process_messages, recv(&self.internal_rx), InternalMessage::FileEvent
\* (server.rs 928-930).
RecvFileEvent ==
  /\ phase = "running"
  /\ internal # <<>>
  /\ Head(internal).type = "FileEvent"
  /\ internal' = Tail(internal)
  /\ docs' = HandleFileEvent(Head(internal))
  /\ last' = [msg |-> Head(internal).kind, uris |-> Head(internal).paths]
  /\ UNCHANGED <<options, caps, distro, workspace, disk, poolVars, out, nextId, phase, opened, fnVars, diagVars, amVars>>

\* ------------------------------------------------- main thread: requests
\* Server::run_async_query (server.rs 109-122): the snapshot is taken here,
\* on the main thread, and moved into the job.
RunAsyncQuery(ps, d, method, u) ==
  Execute(ps, [FreeJob EXCEPT !.method = method, !.uri = u, !.reply = TRUE,
                              !.view = Snapshot(d),
                              !.at = IF method = "workspaceSymbol"
                                     THEN AllFacts(d) ELSE DocFacts(d, u)])

\* Server::spawn (server.rs 124-127): the job gets a fork of the server.
Spawn(ps, d, method, u) ==
  Execute(ps, [FreeJob EXCEPT !.method = method, !.uri = u, !.reply = TRUE,
                              !.ws = Fork(workspace),
                              !.at = IF method = "workspaceSymbol"
                                     THEN AllFacts(d) ELSE DocFacts(d, u)])

\* completion, completion_resolve, document_link, folding_range, formatting,
\* inlay_hints (server.rs 502-507, 528-576, 648-683).
Query(method, u) ==
  /\ phase = "running"
  /\ method \in QueryMethods
  /\ SetPool(RunAsyncQuery(PoolState, docs, method, u))
  /\ last' = [msg |-> method, uris |-> <<u>>]
  /\ UNCHANGED <<docs, options, caps, distro, workspace, disk, lock, internal, phase,
                 opened, fnVars, diagVars, amVars>>

\* A cursor update that counts as an edit and cuts the text at the cursor.
SetCursorCutting(d, u, pos) ==
  IF u \in DOMAIN d
  THEN [d EXCEPT ![u].cursor = OffsetLsp(d[u].text, pos),
                 ![u].text = SubSeq(@, 1, OffsetLsp(d[u].text, pos))]
  ELSE d

\* The cursor update of hover (server.rs 589-600).
SetCursor(d, u, pos) ==
  IF u \in DOMAIN d THEN [d EXCEPT ![u].cursor = OffsetLsp(d[u].text, pos)] ELSE d

\* A hover whose snapshot is taken before the cursor is written.
HoverStale(u, pos) ==
  /\ phase = "running"
  /\ docs' = SetCursor(docs, u, pos)
  /\ SetPool(RunAsyncQuery(PoolState, docs, "hover", u))
  /\ last' = [msg |-> "hover", uris |-> <<u>>]
  /\ UNCHANGED <<options, caps, distro, workspace, disk, lock, internal, phase, opened, fnVars, diagVars, amVars>>

\* Server::hover (server.rs 585-606).
Hover(u, pos) ==
  /\ phase = "running"
  /\ docs' = SetCursor(docs, u, pos)
  /\ SetPool(RunAsyncQuery(PoolState, docs', "hover", u))
  /\ last' = [msg |-> "hover", uris |-> <<u>>]
  /\ UNCHANGED <<options, caps, distro, workspace, disk, lock, internal, phase, opened, fnVars, diagVars, amVars>>

\* references, document_symbols, goto_definition, prepare_rename, rename,
\* document_highlight through handle_feature_request (server.rs 470-500),
\* and workspace_symbols (server.rs 516-526).
Feature(method, u) ==
  /\ phase = "running"
  /\ method \in ForkMethods \cup {"workspaceSymbol"}
  /\ SetPool(Spawn(PoolState, docs, method, u))
  /\ last' = [msg |-> method, uris |-> <<u>>]
  /\ UNCHANGED <<docs, options, caps, distro, workspace, disk, lock, internal, phase,
                 opened, fnVars, diagVars, amVars>>

\* ------------------------------------------------------ pool threads: reads
\* A query job that reads the database of the main thread.
ViewLive(id) == docs

\* The database a query job reads: its snapshot (server.rs 117).
View(id) == jobs[id].view

\* A pool thread takes a query job and the query reads the document's text.
QueryStart(id) ==
  /\ CanStart(id)
  /\ jobs[id].method \in QueryMethods \cup {"hover"}
  /\ queue' = Tail(queue)
  /\ jobs' = [jobs EXCEPT ![id].pc = "read",
                          ![id].seen = IF jobs[id].uri \in DOMAIN View(id)
                                       THEN <<View(id)[jobs[id].uri].text>> ELSE <<>>]
  /\ last' = [msg |-> "job", uris |-> <<>>]
  /\ UNCHANGED <<docs, options, caps, distro, workspace, disk, lock, internal, out, nextId,
                 phase, opened, fnVars, diagVars, amVars>>

\* The result of a query: None when the document is unknown (completion.rs
\* 28, CursorContext::new(..)?), else what it read.
QueryResult(id) ==
  LET u == jobs[id].uri
  IN IF jobs[id].seen = <<>> \/ u \notin DOMAIN View(id) THEN <<>>
     ELSE <<[text |-> jobs[id].seen[1], cursor |-> View(id)[u].cursor]>>

\* The query reads on and the job sends the response (server.rs 118-120).
QueryReply(id) ==
  /\ PoolAlive
  /\ jobs[id].pc = "read"
  /\ out' = Append(out, RespOk(id, QueryResult(id)))
  /\ jobs' = [jobs EXCEPT ![id].pc = "done", ![id].view = <<>>, ![id].seen = <<>>]
  /\ last' = [msg |-> "job", uris |-> <<>>]
  /\ UNCHANGED <<docs, options, caps, distro, workspace, disk, queue, lock, internal, nextId,
                 phase, opened, fnVars, diagVars, amVars>>

\* Workspace::slice of the legacy workspace: the documents around u.
Slice(w, u) == [x \in DOMAIN w \cap {u} |-> w[x]]

\* The job of handle_feature_request (server.rs 482-497).
FeatureResponse(id) ==
  LET request == Slice(jobs[id].ws, jobs[id].uri)
  IN IF DOMAIN request = {}
     THEN RespErr(id, "InvalidRequest", "unknown document")
     ELSE RespOk(id, DocFacts(request, jobs[id].uri))

\* The job of workspace_symbols (server.rs 517-524).
SymbolsResponse(id) == RespOk(id, AllFacts(jobs[id].ws))

\* A pool thread runs a forked job to its response.
FeatureRun(id) ==
  /\ CanStart(id)
  /\ jobs[id].method \in ForkMethods \cup {"workspaceSymbol"}
  /\ queue' = Tail(queue)
  /\ out' = Append(out, IF jobs[id].method = "workspaceSymbol"
                        THEN SymbolsResponse(id) ELSE FeatureResponse(id))
  /\ jobs' = [jobs EXCEPT ![id].pc = "done"]
  /\ last' = [msg |-> "job", uris |-> <<>>]
  /\ UNCHANGED <<docs, options, caps, distro, workspace, disk, lock, internal, nextId,
                 phase, opened, fnVars, diagVars, amVars>>

\* ------------------------------------------------------------- builds
BuildStatuses == {"SUCCESS", "ERROR", "FAILURE", "CANCELLED"}

\* TexCompiler::configure: no compiler for a URI that names no document.
Configure(d, u) == IF u \in DOMAIN d THEN <<u>> ELSE <<>>

\* A build_internal that drops the callback when there is no compiler.
BuildInternalSilent(ps, u, reply) ==
  LET job == [FreeJob EXCEPT !.method = "build", !.uri = u, !.reply = reply,
                             !.fwd = options.forward_search_after]
  IN IF Configure(docs, u) = <<>>
     THEN Skip(ps, [job EXCEPT !.status = "FAILURE"])
     ELSE Execute(ps, job)

\* Server::build_internal (server.rs 714-748) up to pool.execute: without a
\* compiler the callback gets FAILURE at once, on the main thread.
BuildInternal(ps, u, reply) ==
  LET job == [FreeJob EXCEPT !.method = "build", !.uri = u, !.reply = reply,
                             !.fwd = options.forward_search_after]
  IN IF Configure(docs, u) = <<>>
     THEN IF reply
          THEN Answer(ps, [job EXCEPT !.status = "FAILURE"], RespOk(0, <<"FAILURE">>))
          ELSE Skip(ps, [job EXCEPT !.status = "FAILURE"])
     ELSE Execute(ps, job)

\* Server::build (server.rs 699-712).
Build(u) ==
  /\ phase = "running"
  /\ SetPool(BuildInternal(PoolState, u, TRUE))
  /\ last' = [msg |-> "build", uris |-> <<u>>]
  /\ UNCHANGED <<docs, options, caps, distro, workspace, disk, lock, internal, phase,
                 opened, fnVars, diagVars, amVars>>

\* chktex.on_open_and_save of the legacy workspace's environment, which
\* nothing sets after Environment::new.
LegacyChktexOnSave == FALSE

\* Server::did_save (server.rs 423-440).
DidSave(u) ==
  /\ phase = "running"
  /\ LET ps1 == IF options.on_save THEN BuildInternal(PoolState, u, FALSE) ELSE PoolState
         ps2 == IF u \in DOMAIN workspace /\ LegacyChktexOnSave
                THEN Execute(ps1, [FreeJob EXCEPT !.method = "chktex", !.uri = u,
                                                  !.ws = Fork(workspace)])
                ELSE ps1
     IN SetPool(ps2)
  /\ last' = [msg |-> "didSave", uris |-> <<u>>]
  /\ UNCHANGED <<docs, options, caps, distro, workspace, disk, lock, internal, phase,
                 opened, fnVars, diagVars, amVars>>

\* The build job is taken by a pool thread, which goes for the lock.
BuildStart(id) ==
  /\ CanStart(id)
  /\ jobs[id].method = "build"
  /\ queue' = Tail(queue)
  /\ jobs' = [jobs EXCEPT ![id].pc = "lock"]
  /\ last' = [msg |-> "job", uris |-> <<>>]
  /\ UNCHANGED <<docs, options, caps, distro, workspace, disk, lock, internal, out,
                 nextId, phase, opened, fnVars, diagVars, amVars>>

\* A build job that does not wait for the lock.
BuildLockFree(id) ==
  /\ PoolAlive
  /\ jobs[id].pc = "lock"
  /\ lock' = id
  /\ jobs' = [jobs EXCEPT ![id].pc = "run"]
  /\ last' = [msg |-> "job", uris |-> <<>>]
  /\ UNCHANGED <<docs, options, caps, distro, workspace, disk, queue, internal, out,
                 nextId, phase, opened, fnVars, diagVars, amVars>>

\* A build job that keeps the lock when the build did not succeed.
BuildUnlockOnSuccess(id) ==
  /\ PoolAlive
  /\ jobs[id].pc = "sent"
  /\ lock' = IF jobs[id].status = "SUCCESS" THEN 0 ELSE lock
  /\ jobs' = [jobs EXCEPT ![id].pc = "unlocked"]
  /\ last' = [msg |-> "job", uris |-> <<>>]
  /\ UNCHANGED <<docs, options, caps, distro, workspace, disk, queue, internal, out,
                 nextId, phase, opened, fnVars, diagVars, amVars>>

\* let guard = LOCK.lock().unwrap() (server.rs 736).
BuildLock(id) ==
  /\ PoolAlive
  /\ jobs[id].pc = "lock"
  /\ lock = 0
  /\ lock' = id
  /\ jobs' = [jobs EXCEPT ![id].pc = "run"]
  /\ last' = [msg |-> "job", uris |-> <<>>]
  /\ UNCHANGED <<docs, options, caps, distro, workspace, disk, queue, internal, out,
                 nextId, phase, opened, fnVars, diagVars, amVars>>

\* let status = compiler.run() (server.rs 738): the compiler ends.
BuildRun(id, status) ==
  /\ PoolAlive
  /\ jobs[id].pc = "run"
  /\ jobs' = [jobs EXCEPT ![id].pc = "ran", ![id].status = status]
  /\ last' = [msg |-> "job", uris |-> <<>>]
  /\ UNCHANGED <<docs, options, caps, distro, workspace, disk, queue, lock, internal,
                 out, nextId, phase, opened, fnVars, diagVars, amVars>>

\* if forward_search_after { sender.send(ForwardSearch(uri)) } (server.rs 739-741).
BuildSend(id) ==
  /\ PoolAlive
  /\ jobs[id].pc = "ran"
  /\ internal' = IF jobs[id].fwd
                 THEN Append(internal, [type |-> "ForwardSearch", uri |-> jobs[id].uri])
                 ELSE internal
  /\ jobs' = [jobs EXCEPT ![id].pc = "sent"]
  /\ last' = [msg |-> "job", uris |-> <<>>]
  /\ UNCHANGED <<docs, options, caps, distro, workspace, disk, queue, lock, out,
                 nextId, phase, opened, fnVars, diagVars, amVars>>

\* drop(guard) (server.rs 743).
BuildUnlock(id) ==
  /\ PoolAlive
  /\ jobs[id].pc = "sent"
  /\ lock' = 0
  /\ jobs' = [jobs EXCEPT ![id].pc = "unlocked"]
  /\ last' = [msg |-> "job", uris |-> <<>>]
  /\ UNCHANGED <<docs, options, caps, distro, workspace, disk, queue, internal, out,
                 nextId, phase, opened, fnVars, diagVars, amVars>>

\* A build job that calls its callback first and drops the guard after.
BuildCallbackEarly(id) ==
  /\ PoolAlive
  /\ jobs[id].pc = "sent"
  /\ out' = IF jobs[id].reply THEN Append(out, RespOk(id, <<jobs[id].status>>)) ELSE out
  /\ lock' = 0
  /\ jobs' = [jobs EXCEPT ![id].pc = "done"]
  /\ last' = [msg |-> "job", uris |-> <<>>]
  /\ UNCHANGED <<docs, options, caps, distro, workspace, disk, queue, internal,
                 nextId, phase, opened, fnVars, diagVars, amVars>>

\* callback(status) (server.rs 744): build's callback sends the response,
\* did_save's does nothing.
BuildCallback(id) ==
  /\ PoolAlive
  /\ jobs[id].pc = "unlocked"
  /\ out' = IF jobs[id].reply THEN Append(out, RespOk(id, <<jobs[id].status>>)) ELSE out
  /\ jobs' = [jobs EXCEPT ![id].pc = "done"]
  /\ last' = [msg |-> "job", uris |-> <<>>]
  /\ UNCHANGED <<docs, options, caps, distro, workspace, disk, queue, lock, internal,
                 nextId, phase, opened, fnVars, diagVars, amVars>>

\* --------------------------------------------------------- forward search
\* The statuses the viewer command can end a forward search with.
ViewerStatuses == {"SUCCESS", "ERROR", "FAILURE"}

\* Server::forward_search_internal (server.rs 765-803), which runs on the
\* main thread; viewer is how the viewer command ends if it is run.
ForwardSearchStatus(d, o, u, viewer) ==
  IF u \notin DOMAIN d THEN "FAILURE"
  ELSE IF o.forward_search THEN viewer
  ELSE "UNCONFIGURED"

\* Server::forward_search (server.rs 750-763).
ForwardSearch(u, viewer) ==
  /\ phase = "running"
  /\ LET status == ForwardSearchStatus(docs, options, u, viewer)
     IN SetPool(Answer(PoolState,
                       [FreeJob EXCEPT !.method = "forwardSearch", !.uri = u,
                                       !.reply = TRUE, !.status = status],
                       RespOk(0, <<status>>)))
  /\ last' = [msg |-> "forwardSearch", uris |-> <<u>>]
  /\ UNCHANGED <<docs, options, caps, distro, workspace, disk, lock, internal, phase,
                 opened, fnVars, diagVars, amVars>>

\* process_messages, InternalMessage::ForwardSearch (server.rs 931-933).
RecvForwardSearch ==
  /\ phase = "running"
  /\ internal # <<>>
  /\ Head(internal).type = "ForwardSearch"
  /\ internal' = Tail(internal)
  /\ last' = [msg |-> "ForwardSearch", uris |-> <<Head(internal).uri>>]
  /\ UNCHANGED <<docs, options, caps, distro, workspace, disk, poolVars, out, nextId,
                 phase, opened, fnVars, diagVars, amVars>>

\* ----------------------------------------------------------- configuration
\* LspClient::parse_options: the options of a settings value, or an error.
ParseOptions(settings) == IF settings.valid THEN <<settings.value>> ELSE <<>>

\* Server::update_options (server.rs 322-330).
UpdateOptions(o) == options' = o

\* Server::pull_options (server.rs 288-320) up to pool.execute.
PullOptions(ps) ==
  IF caps'.pull THEN Execute(ps, [FreeJob EXCEPT !.method = "pullOptions"]) ELSE ps

\* Server::did_change_configuration (server.rs 340-353): an error of
\* parse_options goes up through process_messages and run.
DidChangeConfiguration(settings) ==
  /\ phase = "running"
  /\ UNCHANGED caps
  /\ IF caps.pull
     THEN SetPool(PullOptions(PoolState)) /\ UNCHANGED <<options, phase>>
     ELSE /\ UNCHANGED <<queue, jobs, out, nextId>>
          /\ IF ParseOptions(settings) = <<>>
             THEN phase' = "failed" /\ UNCHANGED options
             ELSE UpdateOptions(ParseOptions(settings)[1]) /\ UNCHANGED phase
  /\ last' = [msg |-> "didChangeConfiguration", uris |-> <<>>]
  /\ UNCHANGED <<docs, distro, workspace, disk, lock, internal, opened, fnVars, diagVars, amVars>>

\* process_messages, InternalMessage::SetOptions (server.rs 925-927).
RecvSetOptions ==
  /\ phase = "running"
  /\ internal # <<>>
  /\ Head(internal).type = "SetOptions"
  /\ internal' = Tail(internal)
  /\ UpdateOptions(Head(internal).options)
  /\ last' = [msg |-> "SetOptions", uris |-> <<>>]
  /\ UNCHANGED <<docs, caps, distro, workspace, disk, poolVars, out, nextId, phase,
                 opened, fnVars, diagVars, amVars>>

\* process_messages, InternalMessage::SetDistro (server.rs 919-924).
RecvSetDistro ==
  /\ phase = "running"
  /\ internal # <<>>
  /\ Head(internal).type = "SetDistro"
  /\ internal' = Tail(internal)
  /\ distro' = "detected"
  /\ last' = [msg |-> "SetDistro", uris |-> <<>>]
  /\ UNCHANGED <<docs, options, caps, workspace, disk, poolVars, out, nextId, phase,
                 opened, fnVars, diagVars, amVars>>

\* A handshake that process_messages would run again on a later
\* initialize request.
InitializeAgain(skipDistro, pull, push) ==
  /\ phase \in {"new", "running"}
  /\ caps' = [pull |-> pull, push |-> push]
  /\ LET ps0 == [PoolState EXCEPT !.out = Append(out, RespOk(0, <<"initialize">>))]
         ps1 == IF skipDistro THEN ps0
                ELSE Execute(ps0, [FreeJob EXCEPT !.method = "distro"])
         ps2 == IF push THEN Execute(ps1, [FreeJob EXCEPT !.method = "register"])
                ELSE ps1
     IN SetPool(PullOptions(ps2))
  /\ phase' = "running"
  /\ last' = [msg |-> "initialize", uris |-> <<>>]
  /\ UNCHANGED <<docs, options, distro, workspace, disk, lock, internal, opened, fnVars, diagVars, amVars>>

\* Server::initialize (server.rs 192-238): the handshake, then the jobs that
\* detect the distribution, register for configuration changes and pull
\* the options.
Initialize(skipDistro, pull, push) ==
  /\ phase = "new"
  /\ caps' = [pull |-> pull, push |-> push]
  /\ LET ps0 == [PoolState EXCEPT !.out = Append(out, RespOk(0, <<"initialize">>))]
         ps1 == IF skipDistro THEN ps0
                ELSE Execute(ps0, [FreeJob EXCEPT !.method = "distro"])
         ps2 == IF push THEN Execute(ps1, [FreeJob EXCEPT !.method = "register"])
                ELSE ps1
     IN SetPool(PullOptions(ps2))
  /\ phase' = "running"
  /\ last' = [msg |-> "initialize", uris |-> <<>>]
  /\ UNCHANGED <<docs, options, distro, workspace, disk, lock, internal, opened, fnVars, diagVars, amVars>>

\* The job of initialize (server.rs 223-231): detect and send SetDistro.
DistroRun(id) ==
  /\ CanStart(id)
  /\ jobs[id].method = "distro"
  /\ queue' = Tail(queue)
  /\ internal' = Append(internal, [type |-> "SetDistro"])
  /\ jobs' = [jobs EXCEPT ![id].pc = "done"]
  /\ last' = [msg |-> "job", uris |-> <<>>]
  /\ UNCHANGED <<docs, options, caps, distro, workspace, disk, lock, out, nextId,
                 phase, opened, fnVars, diagVars, amVars>>

\* A job sends a request to the client and waits for the response
\* (client.send_request, server.rs 258 and 307).
ClientRequest(id) ==
  /\ CanStart(id)
  /\ jobs[id].method \in {"register", "pullOptions"}
  /\ queue' = Tail(queue)
  /\ out' = Append(out, [request |-> jobs[id].method, job |-> id])
  /\ jobs' = [jobs EXCEPT ![id].pc = "await"]
  /\ last' = [msg |-> "job", uris |-> <<>>]
  /\ UNCHANGED <<docs, options, caps, distro, workspace, disk, lock, internal, nextId,
                 phase, opened, fnVars, diagVars, amVars>>

\* process_messages, Message::Response (server.rs 912-914): the main thread
\* hands the client's response to the waiting job.
RecvResponse(id, result) ==
  /\ phase = "running"
  /\ jobs[id].pc = "await"
  /\ jobs' = [jobs EXCEPT ![id].pc = "got", ![id].seen = result]
  /\ last' = [msg |-> "response", uris |-> <<>>]
  /\ UNCHANGED <<docs, options, caps, distro, workspace, disk, queue, lock, internal,
                 out, nextId, phase, opened, fnVars, diagVars, amVars>>

\* The job of register_configuration ends (server.rs 258-264).
RegisterEnd(id) ==
  /\ PoolAlive
  /\ jobs[id].pc = "got"
  /\ jobs[id].method = "register"
  /\ jobs' = [jobs EXCEPT ![id].pc = "done", ![id].seen = <<>>]
  /\ last' = [msg |-> "job", uris |-> <<>>]
  /\ UNCHANGED <<docs, options, caps, distro, workspace, disk, queue, lock, internal,
                 out, nextId, phase, opened, fnVars, diagVars, amVars>>

\* A pull_options job that writes the options itself.
PullEndWriting(id) ==
  /\ PoolAlive
  /\ jobs[id].pc = "got"
  /\ jobs[id].method = "pullOptions"
  /\ LET result == jobs[id].seen
     IN IF result # <<>> /\ ParseOptions(result[1]) # <<>>
        THEN options' = ParseOptions(result[1])[1]
        ELSE UNCHANGED options
  /\ jobs' = [jobs EXCEPT ![id].pc = "done", ![id].seen = <<>>]
  /\ last' = [msg |-> "job", uris |-> <<>>]
  /\ UNCHANGED <<docs, caps, distro, workspace, disk, queue, lock, internal, out,
                 nextId, phase, opened, fnVars, diagVars, amVars>>

\* The job of pull_options ends (server.rs 307-318): a failed request is
\* logged; options that do not parse panic the job (unwrap); else the
\* options go to the main thread as SetOptions.
PullEnd(id) ==
  /\ PoolAlive
  /\ jobs[id].pc = "got"
  /\ jobs[id].method = "pullOptions"
  /\ LET result == jobs[id].seen
     IN IF result # <<>> /\ ParseOptions(result[1]) # <<>>
        THEN internal' = Append(internal, [type |-> "SetOptions",
                                           options |-> ParseOptions(result[1])[1]])
        ELSE UNCHANGED internal
  /\ jobs' = [jobs EXCEPT ![id].pc = "done", ![id].seen = <<>>]
  /\ last' = [msg |-> "job", uris |-> <<>>]
  /\ UNCHANGED <<docs, options, caps, distro, workspace, disk, queue, lock, out,
                 nextId, phase, opened, fnVars, diagVars, amVars>>

\* ------------------------------------------------------------- lifecycle
\* Connection::initialize_start as Server::initialize calls it (server.rs
\* 193) meets a request that is not initialize: the library refuses it
\* with ServerNotInitialized and waits on, or gives up with a protocol
\* error, which initialize and run return (server.rs 193, 941).
EarlyRequest(method, refuse) ==
  /\ phase = "new"
  /\ IF refuse
     THEN /\ SetPool(Answer(PoolState,
                            [FreeJob EXCEPT !.method = method, !.reply = TRUE],
                            RespErr(0, "ServerNotInitialized", "expected initialize request")))
          /\ UNCHANGED phase
     ELSE /\ SetPool(Skip(PoolState, [FreeJob EXCEPT !.method = method, !.reply = TRUE]))
          /\ phase' = "failed"
  /\ last' = [msg |-> "early", uris |-> <<>>]
  /\ UNCHANGED <<docs, options, caps, distro, workspace, disk, lock, internal, opened, fnVars, diagVars, amVars>>

\* initialize_start meets a notification: it is dropped, or ends the wait
\* with a protocol error.
EarlyNotification(drop) ==
  /\ phase = "new"
  /\ phase' = IF drop THEN phase ELSE "failed"
  /\ last' = [msg |-> "early", uris |-> <<>>]
  /\ UNCHANGED <<docs, options, caps, distro, workspace, disk, poolVars, internal, out,
                 nextId, opened, fnVars, diagVars, amVars>>

\* process_messages gets an initialize request: no handler of the
\* RequestDispatcher takes it and default() refuses it (server.rs 850-890).
LateInitialize ==
  /\ phase = "running"
  /\ SetPool(Answer(PoolState,
                    [FreeJob EXCEPT !.method = "initialize", !.reply = TRUE],
                    RespErr(0, "MethodNotFound", "Unknown request")))
  /\ last' = [msg |-> "lateInitialize", uris |-> <<>>]
  /\ UNCHANGED <<docs, options, caps, distro, workspace, disk, lock, internal, phase,
                 opened, fnVars, diagVars, amVars>>

\* process_messages gets a shutdown request (server.rs 846): the library's
\* Connection::handle_shutdown answers it and waits, on the main thread,
\* for the next message.
Shutdown ==
  /\ phase = "running"
  /\ SetPool(Answer(PoolState,
                    [FreeJob EXCEPT !.method = "shutdown", !.reply = TRUE],
                    RespOk(0, <<>>)))
  /\ phase' = "shutdown"
  /\ last' = [msg |-> "shutdown", uris |-> <<>>]
  /\ UNCHANGED <<docs, options, caps, distro, workspace, disk, lock, internal, opened, fnVars, diagVars, amVars>>

\* The message after shutdown is exit: handle_shutdown returns true,
\* process_messages returns (server.rs 846-848) and run joins the pool
\* (server.rs 943).
ExitAfterShutdown ==
  /\ phase = "shutdown"
  /\ phase' = "joining"
  /\ last' = [msg |-> "exit", uris |-> <<>>]
  /\ UNCHANGED <<docs, options, caps, distro, workspace, disk, poolVars, internal, out,
                 nextId, opened, fnVars, diagVars, amVars>>

\* The message after shutdown is a request: handle_shutdown takes it from
\* the channel and returns a protocol error, which the ? of server.rs 846
\* returns from process_messages and run; nothing answers the request.
RequestAfterShutdown(method) ==
  /\ phase = "shutdown"
  /\ SetPool(Skip(PoolState, [FreeJob EXCEPT !.method = method, !.reply = TRUE]))
  /\ phase' = "failed"
  /\ last' = [msg |-> method, uris |-> <<>>]
  /\ UNCHANGED <<docs, options, caps, distro, workspace, disk, lock, internal, opened, fnVars, diagVars, amVars>>

\* A run that returns without joining the pool.
PoolJoinAtOnce ==
  /\ phase = "joining"
  /\ phase' = "exited"
  /\ last' = [msg |-> "join", uris |-> <<>>]
  /\ UNCHANGED <<docs, options, caps, distro, workspace, disk, poolVars, internal, out,
                 nextId, opened, fnVars, diagVars, amVars>>

\* Server::run after process_messages returned (server.rs 943-944):
\* pool.join waits for the queued and the running jobs.
PoolJoin ==
  /\ phase = "joining"
  /\ queue = <<>>
  /\ Active = {}
  /\ phase' = "exited"
  /\ last' = [msg |-> "join", uris |-> <<>>]
  /\ UNCHANGED <<docs, options, caps, distro, workspace, disk, poolVars, internal, out,
                 nextId, opened, fnVars, diagVars, amVars>>

\* ---------------------------------------------------------------- session
\* A cancel that takes the targeted job from the pool's queue.
CancelDropping(id) ==
  /\ phase = "running"
  /\ queue' = SelectSeq(queue, LAMBDA q : q # id)
  /\ jobs' = IF jobs[id].pc = "queued" THEN [jobs EXCEPT ![id].pc = "done"] ELSE jobs
  /\ last' = [msg |-> "cancel", uris |-> <<>>, target |-> id]
  /\ UNCHANGED <<docs, options, caps, distro, workspace, disk, lock, internal, out,
                 nextId, phase, opened, fnVars, diagVars, amVars>>

\* Server::cancel (server.rs 332-334): Ok(()) and nothing else.
Cancel(id) ==
  /\ phase = "running"
  /\ last' = [msg |-> "cancel", uris |-> <<>>, target |-> id]
  /\ UNCHANGED <<docs, options, caps, distro, workspace, disk, poolVars, internal, out,
                 nextId, phase, opened, fnVars, diagVars, amVars>>

\* The input channel is disconnected: recv gives an error, which msg?
\* returns from process_messages (server.rs 844-846) and run (942), as
\* initialize_start (193) and handle_shutdown (848) return theirs.
Disconnect ==
  /\ phase \in {"new", "running", "shutdown"}
  /\ phase' = "failed"
  /\ last' = [msg |-> "disconnect", uris |-> <<>>]
  /\ UNCHANGED <<docs, options, caps, distro, workspace, disk, poolVars, internal, out,
                 nextId, opened, fnVars, diagVars, amVars>>

\* ----------------------------------------------------------------- viewer
\* forward_search_internal runs the viewer: the document is known and the
\* viewer is configured (server.rs 772-788).
RunsViewer(d, o, u) == u \in DOMAIN d /\ o.forward_search

\* Server::forward_search (server.rs 750-763) up to ForwardSearch::execute
\* (server.rs 788-796), which the main thread calls and whose result it
\* takes the status from; without a viewer to run the callback answers at
\* once.
ForwardSearchBegin(u) ==
  /\ phase = "running"
  /\ IF RunsViewer(docs, options, u)
     THEN phase' = "viewer" /\ UNCHANGED <<queue, jobs, out, nextId>>
     ELSE /\ LET status == ForwardSearchStatus(docs, options, u, "FAILURE")
             IN SetPool(Answer(PoolState,
                               [FreeJob EXCEPT !.method = "forwardSearch", !.uri = u,
                                               !.reply = TRUE, !.status = status],
                               RespOk(0, <<status>>)))
          /\ UNCHANGED phase
  /\ last' = [msg |-> "forwardSearch", uris |-> <<u>>]
  /\ UNCHANGED <<docs, options, caps, distro, workspace, disk, lock, internal, opened,
                 fnVars, diagVars, amVars>>

\* process_messages, InternalMessage::ForwardSearch (server.rs 931-933), up
\* to ForwardSearch::execute.
RecvForwardSearchBegin ==
  /\ phase = "running"
  /\ internal # <<>>
  /\ Head(internal).type = "ForwardSearch"
  /\ internal' = Tail(internal)
  /\ phase' = IF RunsViewer(docs, options, Head(internal).uri) THEN "viewer" ELSE phase
  /\ last' = [msg |-> "ForwardSearch", uris |-> <<Head(internal).uri>>]
  /\ UNCHANGED <<docs, options, caps, distro, workspace, disk, poolVars, out, nextId,
                 opened, fnVars, diagVars, amVars>>

\* ForwardSearch::execute returns when the viewer command has ended, and
\* the callback gets the status (server.rs 797-802): forward_search's
\* sends the response, the internal message's does nothing.
ViewerReturns(viewer) ==
  /\ phase = "viewer"
  /\ phase' = "running"
  /\ IF last.msg = "forwardSearch"
     THEN SetPool(Answer(PoolState,
                         [FreeJob EXCEPT !.method = "forwardSearch", !.uri = last.uris[1],
                                         !.reply = TRUE, !.status = viewer],
                         RespOk(0, <<viewer>>)))
     ELSE UNCHANGED <<queue, jobs, out, nextId>>
  /\ last' = [msg |-> "viewerReturned", uris |-> last.uris]
  /\ UNCHANGED <<docs, options, caps, distro, workspace, disk, lock, internal, opened,
                 fnVars, diagVars, amVars>>

\* ----------------------------------------------------------------- panics
\* The value of lock when LOCK is poisoned: a job panicked holding it.
Poisoned == -1

\* A job panics in the query it runs (server.rs 117-120) or in
\* compiler.run() (server.rs 738): the pool replaces the thread, the job
\* sends nothing, and a guard of LOCK dropped by the panic poisons it.
JobPanic(id) ==
  /\ PoolAlive
  /\ jobs[id].pc \in {"read", "run"}
  /\ jobs' = [jobs EXCEPT ![id].pc = "done", ![id].status = "PANIC",
                          ![id].view = <<>>, ![id].seen = <<>>]
  /\ lock' = IF lock = id THEN Poisoned ELSE lock
  /\ last' = [msg |-> "job", uris |-> <<>>]
  /\ UNCHANGED <<docs, options, caps, distro, workspace, disk, queue, internal, out,
                 nextId, phase, opened, fnVars, diagVars, amVars>>

\* LOCK.lock().unwrap() (server.rs 736) on a poisoned LOCK: lock() gives an
\* error and unwrap panics, before the compiler runs and the callback is
\* called.
BuildLockPoisoned(id) ==
  /\ PoolAlive
  /\ jobs[id].pc = "lock"
  /\ lock = Poisoned
  /\ jobs' = [jobs EXCEPT ![id].pc = "done", ![id].status = "POISONED"]
  /\ last' = [msg |-> "job", uris |-> <<>>]
  /\ UNCHANGED <<docs, options, caps, distro, workspace, disk, queue, lock, internal, out,
                 nextId, phase, opened, fnVars, diagVars, amVars>>

\* ------------------------------------------------------- other requests
\* Server::execute_command (server.rs 658-674): the command runs in a
\* spawned job.
ExecuteCommand ==
  /\ phase = "running"
  /\ SetPool(Spawn(PoolState, docs, "executeCommand", ""))
  /\ last' = [msg |-> "executeCommand", uris |-> <<>>]
  /\ UNCHANGED <<docs, options, caps, distro, workspace, disk, lock, internal, phase,
                 opened, fnVars, diagVars, amVars>>

\* The job of execute_command (server.rs 659-671): the command ends with
\* Ok or with Err, and either is sent as the response.
ExecuteCommandRun(id, ok) ==
  /\ CanStart(id)
  /\ jobs[id].method = "executeCommand"
  /\ queue' = Tail(queue)
  /\ out' = Append(out, IF ok THEN RespOk(id, <<>>)
                        ELSE RespErr(id, "InternalError", "command failed"))
  /\ jobs' = [jobs EXCEPT ![id].pc = "done"]
  /\ last' = [msg |-> "job", uris |-> <<>>]
  /\ UNCHANGED <<docs, options, caps, distro, workspace, disk, lock, internal, nextId,
                 phase, opened, fnVars, diagVars, amVars>>

\* Server::inlay_hint_resolve (server.rs 685-689): the hint goes back as it
\* came, from the main thread.
InlayHintResolve ==
  /\ phase = "running"
  /\ SetPool(Answer(PoolState,
                    [FreeJob EXCEPT !.method = "inlayHintResolve", !.reply = TRUE],
                    RespOk(0, <<"hint">>)))
  /\ last' = [msg |-> "inlayHintResolve", uris |-> <<>>]
  /\ UNCHANGED <<docs, options, caps, distro, workspace, disk, lock, internal, phase,
                 opened, fnVars, diagVars, amVars>>

\* Server::semantic_tokens_range (server.rs 691-697): Ok(()) and nothing
\* else, so the dispatcher (server.rs 883-885) has handled the request.
SemanticTokensRange ==
  /\ phase = "running"
  /\ SetPool(Skip(PoolState,
                  [FreeJob EXCEPT !.method = "semanticTokensRange", !.reply = TRUE]))
  /\ last' = [msg |-> "semanticTokensRange", uris |-> <<>>]
  /\ UNCHANGED <<docs, options, caps, distro, workspace, disk, lock, internal, phase,
                 opened, fnVars, diagVars, amVars>>

\* ------------------------------------------------------------ diagnostics
\* The delay of a debounced item (diagnosticsDelay), in ticks of the clock,
\* and the number of items the model sends.
Delay == 2
MaxSends == 3
\* The calls of ActionManager::push and take explored.
MaxCalls == 4
\* The components of the databases explored.
MaxComponents == 3

\* The documents of a legacy workspace snapshot, in the order of iteration.
LogUri == "main.log"
DiagUris == <<TexUri, BibUri, LogUri>>

\* DocumentData of a legacy document.
DataOf(u) == IF u = LogUri THEN "BuildLog" ELSE IF u = BibUri THEN "Bibtex" ELSE "Latex"

\* The lists of diagnostics the DiagnosticManager can hold for a document.
DiagLists == {<<>>, <<"e1">>, <<"e1", "e2">>}

\* The workspace snapshots: [URI -> [data, diagnostics]].
Snapshots ==
  UNION {[ds -> {[data |-> k, diagnostics |-> l] : k \in {"Latex", "Bibtex", "BuildLog"},
                                                   l \in DiagLists}] :
         ds \in SUBSET {TexUri, BibUri, LogUri}}
WellTyped(ws) == \A u \in DOMAIN ws : ws[u].data = DataOf(u)

\* A publishDiagnostics notification on the output channel.
Notification(u, diagnostics) ==
  [notify |-> "publishDiagnostics", uri |-> u, diagnostics |-> diagnostics]

\* publish_diagnostics that leaves no document out.
PublishEvery(ws) ==
  LET present == SelectSeq(DiagUris, LAMBDA u : u \in DOMAIN ws)
  IN [k \in DOMAIN present |-> Notification(present[k], ws[present[k]].diagnostics)]

\* publish_diagnostics (server.rs 964-983): one notification with the
\* list of DiagnosticManager::publish for every document but build logs.
PublishDiagnostics(ws) ==
  LET present == SelectSeq(DiagUris,
                           LAMBDA u : u \in DOMAIN ws /\ ws[u].data # "BuildLog")
  IN [k \in DOMAIN present |-> Notification(present[k], ws[present[k]].diagnostics)]

\* A sender that leaves an item the debouncer holds in place.
DebouncerSendKeeping(item) ==
  /\ Len(sent) < MaxSends
  /\ IF pending = <<>>
     THEN pending' = <<item>> /\ timer' = Delay
     ELSE UNCHANGED <<pending, timer>>
  /\ sent' = Append(sent, item)
  /\ quiet' = 0
  /\ UNCHANGED <<docs, options, caps, distro, workspace, disk, poolVars, internal, out,
                 nextId, phase, opened, last, fnVars, amVars>>

\* debouncer::Sender::send (server.rs 279, 463-466): the item replaces the
\* one the debouncer holds and the delay starts again.
DebouncerSend(item) ==
  /\ Len(sent) < MaxSends
  /\ pending' = <<item>>
  /\ timer' = Delay
  /\ sent' = Append(sent, item)
  /\ quiet' = 0
  /\ UNCHANGED <<docs, options, caps, distro, workspace, disk, poolVars, internal, out,
                 nextId, phase, opened, last, fnVars, amVars>>

\* The debouncer's thread (create_debouncer, server.rs 948-962): time
\* passes in rx.recv(), and when the delay of the item held has passed
\* recv returns it and publish_diagnostics runs.
DebouncerTick ==
  /\ timer > 0
  /\ timer' = timer - 1
  /\ quiet' = Min(quiet + 1, Delay)
  /\ IF timer' = 0
     THEN out' = out \o PublishDiagnostics(pending[1]) /\ pending' = <<>>
     ELSE UNCHANGED <<out, pending>>
  /\ UNCHANGED <<docs, options, caps, distro, workspace, disk, poolVars, internal,
                 nextId, phase, opened, last, fnVars, sent, amVars>>

\* ---------------------------------------------------------- action manager
\* The threads that share the ActionManager, and the actions they push
\* (Action, action.rs 13-20).
Callers == {1, 2}
ActionValues == {"LoadDistribution", "PublishDiagnostics"}

\* A caller that is in neither push nor take.
IdleCall == [pc |-> "idle", action |-> "", seen |-> <<>>, result |-> <<>>]

\* The calls that have begun: those that returned and those under way.
Begun == Len(log) + Cardinality({t \in Callers : calls[t].pc # "idle"})

\* A push that does not wait for the Mutex.
PushLockFree(t, action) ==
  /\ calls[t].pc = "idle"
  /\ Begun < MaxCalls
  /\ mutex' = t
  /\ calls' = [calls EXCEPT ![t] = [IdleCall EXCEPT !.pc = "push", !.action = action]]
  /\ UNCHANGED <<docs, options, caps, distro, workspace, disk, poolVars, internal, out,
                 nextId, phase, opened, last, fnVars, diagVars, actions, log>>

\* ActionManager::push, self.actions.lock().unwrap() (action.rs 29).
PushLock(t, action) ==
  /\ calls[t].pc = "idle"
  /\ Begun < MaxCalls
  /\ mutex = 0
  /\ mutex' = t
  /\ calls' = [calls EXCEPT ![t] = [IdleCall EXCEPT !.pc = "push", !.action = action]]
  /\ UNCHANGED <<docs, options, caps, distro, workspace, disk, poolVars, internal, out,
                 nextId, phase, opened, last, fnVars, diagVars, actions, log>>

\* actions.push(action) (action.rs 30), first half: Vec::push reads the
\* vector it is going to extend.
PushRead(t) ==
  /\ calls[t].pc = "push"
  /\ calls' = [calls EXCEPT ![t].pc = "pushing", ![t].seen = actions]
  /\ UNCHANGED <<docs, options, caps, distro, workspace, disk, poolVars, internal, out,
                 nextId, phase, opened, last, fnVars, diagVars, actions, mutex, log>>

\* actions.push(action), second half, and the end of push (action.rs
\* 30-31): the vector is written with the action at its end, the guard is
\* dropped and push returns.
PushDone(t) ==
  /\ calls[t].pc = "pushing"
  /\ actions' = Append(calls[t].seen, calls[t].action)
  /\ mutex' = IF mutex = t THEN 0 ELSE mutex
  /\ log' = Append(log, [op |-> "push", by |-> t, action |-> calls[t].action,
                         result |-> <<>>])
  /\ calls' = [calls EXCEPT ![t] = IdleCall]
  /\ UNCHANGED <<docs, options, caps, distro, workspace, disk, poolVars, internal, out,
                 nextId, phase, opened, last, fnVars, diagVars>>

\* ActionManager::take, self.actions.lock().unwrap() (action.rs 34).
TakeLock(t) ==
  /\ calls[t].pc = "idle"
  /\ Begun < MaxCalls
  /\ mutex = 0
  /\ mutex' = t
  /\ calls' = [calls EXCEPT ![t] = [IdleCall EXCEPT !.pc = "take"]]
  /\ UNCHANGED <<docs, options, caps, distro, workspace, disk, poolVars, internal, out,
                 nextId, phase, opened, last, fnVars, diagVars, actions, log>>

\* A take that returns a copy of the vector and leaves it as it is.
TakeReplaceKeeping(t) ==
  /\ calls[t].pc = "take"
  /\ calls' = [calls EXCEPT ![t].pc = "replaced", ![t].result = actions]
  /\ UNCHANGED <<docs, options, caps, distro, workspace, disk, poolVars, internal, out,
                 nextId, phase, opened, last, fnVars, diagVars, actions, mutex, log>>

\* mem::replace(&mut *actions, Vec::new()) (action.rs 35): the vector is
\* moved out and an empty one is left in its place.
TakeReplace(t) ==
  /\ calls[t].pc = "take"
  /\ calls' = [calls EXCEPT ![t].pc = "replaced", ![t].result = actions]
  /\ actions' = <<>>
  /\ UNCHANGED <<docs, options, caps, distro, workspace, disk, poolVars, internal, out,
                 nextId, phase, opened, last, fnVars, diagVars, mutex, log>>

\* The end of take (action.rs 35-36): the guard is dropped and the vector
\* moved out is returned.
TakeDone(t) ==
  /\ calls[t].pc = "replaced"
  /\ mutex' = IF mutex = t THEN 0 ELSE mutex
  /\ log' = Append(log, [op |-> "take", by |-> t, action |-> "",
                         result |-> calls[t].result])
  /\ calls' = [calls EXCEPT ![t] = IdleCall]
  /\ UNCHANGED <<docs, options, caps, distro, workspace, disk, poolVars, internal, out,
                 nextId, phase, opened, last, fnVars, diagVars, actions>>

\* -------------------------------------------------------------- components
\* ComponentDatabase::find (components.rs 23-30): the first component one
\* of whose file names is name, as its place in the database.
Find(components, name) ==
  LET hits == {i \in DOMAIN components :
                 \E k \in DOMAIN components[i].file_names :
                   components[i].file_names[k] = name}
  IN IF hits = {} THEN <<>> ELSE <<CHOOSE i \in hits : \A j \in hits : i <= j>>

\* ComponentDatabase::kernel (components.rs 55-60): the first component
\* without file names.
Kernel(components) ==
  CHOOSE i \in DOMAIN components :
    /\ components[i].file_names = <<>>
    /\ \A j \in DOMAIN components : components[j].file_names = <<>> => i <= j

\* The file name a link stands for (components.rs 38-42): a package's or a
\* class's, none for another kind of link.
LinkName(link) ==
  IF link.kind = "Sty" THEN <<<<link.path, "sty">>>>
  ELSE IF link.kind = "Cls" THEN <<<<link.path, "cls">>>>
  ELSE <<>>

RECURSIVE Links(_)
\* The links of the TeX documents, one document after the other
\* (components.rs 36-37).
Links(documents) ==
  IF documents = <<>> THEN <<>> ELSE Head(documents) \o Links(Tail(documents))

RECURSIVE Found(_, _)
\* .filter_map(|name| self.find(&name)) over the names of the links
\* (components.rs 38-43).
Found(components, links) ==
  IF links = <<>> THEN <<>>
  ELSE (IF LinkName(Head(links)) = <<>> THEN <<>>
        ELSE Find(components, LinkName(Head(links))[1]))
       \o Found(components, Tail(links))

RECURSIVE FoundNames(_, _)
\* comp.references.iter().filter_map(|name| self.find(name)) (components.rs 46-48).
FoundNames(components, names) ==
  IF names = <<>> THEN <<>>
  ELSE Find(components, Head(names)) \o FoundNames(components, Tail(names))

RECURSIVE WithReferences(_, _)
\* The flat_map of components.rs 45-50: before each component, those of
\* its references that the database has.
WithReferences(components, comps) ==
  IF comps = <<>> THEN <<>>
  ELSE FoundNames(components, components[Head(comps)].references)
       \o <<Head(comps)>> \o WithReferences(components, Tail(comps))

RECURSIVE UniqueBy(_, _, _)
\* .unique_by(|comp| &comp.file_names) (components.rs 51): the first of
\* the components with each list of file names.
UniqueBy(components, comps, keys) ==
  IF comps = <<>> THEN <<>>
  ELSE IF components[Head(comps)].file_names \in keys
       THEN UniqueBy(components, Tail(comps), keys)
       ELSE <<Head(comps)>>
            \o UniqueBy(components, Tail(comps),
                        keys \cup {components[Head(comps)].file_names})

\* A list of linked components that keeps every occurrence.
LinkedComponentsRepeating(components, documents) ==
  WithReferences(components,
                 Append(Found(components, Links(documents)), Kernel(components)))

\* ComponentDatabase::linked_components (components.rs 32-53); documents
\* holds the links of each TeX document of related(child).
LinkedComponents(components, documents) ==
  UniqueBy(components,
           WithReferences(components,
                          Append(Found(components, Links(documents)), Kernel(components))),
           {})

\* ------------------------------------------------------------------- init
\* Options::default and the capabilities before initialize.
DefaultOptions ==
  [on_save |-> FALSE, forward_search_after |-> FALSE, forward_search |-> FALSE]
NoCaps == [pull |-> FALSE, push |-> FALSE]

\* The server after Server::new; a is the input of the function applied.
Start(a) ==
  /\ docs = <<>>
  /\ options = DefaultOptions
  /\ caps = NoCaps
  /\ distro = "none"
  /\ workspace = <<>>
  /\ disk = <<>>
  /\ queue = <<>>
  /\ jobs = [i \in 1..MaxIds |-> FreeJob]
  /\ lock = 0
  /\ internal = <<>>
  /\ out = <<>>
  /\ nextId = 0
  /\ phase = "new"
  /\ opened = {}
  /\ last = [msg |-> "init", uris |-> <<>>]
  /\ arg = a
  /\ res = <<>>
  /\ pending = <<>>
  /\ timer = 0
  /\ sent = <<>>
  /\ quiet = 0
  /\ actions = <<>>
  /\ mutex = 0
  /\ calls = [t \in Callers |-> IdleCall]
  /\ log = <<>>

Init == Start(<<>>)

\* ------------------------------------------------ the document lifecycle
\* The texts of the lifecycle runs and the changes a client sends in them.
DocTexts == {<<>>, <<"a">>}
FullChange(text) == [range |-> <<>>, text |-> text]
RangeChange(start, end, text) ==
  [range |-> <<[start |-> start, end |-> end]>>, text |-> text]
Pos(l, c) == [line |-> l, character |-> c]
DocBatches ==
  {<<>>} \cup {<<FullChange(t)>> : t \in DocTexts}
         \cup {<<RangeChange(Pos(0, 0), Pos(0, 1), <<>>)>>}
LanguageIds == {"latex", "bibtex"}
DiskTexts == {<<"a">>}

\* The notifications of a client that opens, edits and closes documents.
ClientNext ==
  \/ Initialize(TRUE, FALSE, FALSE)
  \/ \E u \in DocUris, t \in DocTexts, l \in LanguageIds : DidOpen(u, t, l)
  \/ \E u \in DocUris, b \in DocBatches : DidChange(u, b)
  \/ \E u \in DocUris : DidClose(u)

\* The same client, opening every document as LaTeX.
LatexClientNext ==
  \/ Initialize(TRUE, FALSE, FALSE)
  \/ \E u \in DocUris, t \in DocTexts : DidOpen(u, t, "latex")
  \/ \E u \in DocUris, b \in DocBatches : DidChange(u, b)
  \/ \E u \in DocUris : DidClose(u)

\* The watcher and the file system at work beside the client.
WatcherNext ==
  \/ \E k \in EventKinds, ps \in EventPaths(DocUris) : WatcherEvent(k, ps)
  \/ \E p \in DocUris, t \in DiskTexts : FsWrite(p, t)
  \/ \E p \in DocUris : FsDelete(p)
  \/ RecvFileEvent

DocsNext == LatexClientNext \/ WatcherNext

\* ------------------------------------------------------ the read pipeline
ReadUris == {TexUri}
ReadTexts == {<<>>, <<"a">>}
ReadBatches == {<<FullChange(t)>> : t \in ReadTexts}
ReadPositions == {Pos(0, 0), Pos(0, 1)}

\* A client that opens and edits documents and asks about them, and the
\* pool threads that answer.
ReadNext ==
  \/ Initialize(TRUE, FALSE, FALSE)
  \/ \E u \in ReadUris, t \in ReadTexts : DidOpen(u, t, "latex")
  \/ \E u \in ReadUris, b \in ReadBatches : DidChange(u, b)
  \/ \E u \in ReadUris, m \in QueryMethods : nextId < ReadIds /\ Query(m, u)
  \/ \E u \in ReadUris, pos \in ReadPositions : nextId < ReadIds /\ Hover(u, pos)
  \/ \E u \in ReadUris, m \in ForkMethods \cup {"workspaceSymbol"} :
        nextId < ReadIds /\ Feature(m, u)
  \/ \E id \in 1..MaxIds : QueryStart(id)
  \/ \E id \in 1..MaxIds : QueryReply(id)
  \/ \E id \in 1..MaxIds : FeatureRun(id)

Spec == Init /\ [][ReadNext]_vars

\* The requests served from a snapshot, one of them the request that writes
\* the cursor first, beside the edits of the document they read.
ViewNext ==
  \/ Initialize(TRUE, FALSE, FALSE)
  \/ \E u \in ReadUris, t \in ReadTexts : DidOpen(u, t, "latex")
  \/ \E u \in ReadUris, b \in ReadBatches : DidChange(u, b)
  \/ \E u \in ReadUris : nextId < ReadIds /\ Query("completion", u)
  \/ \E u \in ReadUris, pos \in ReadPositions : nextId < ReadIds /\ Hover(u, pos)
  \/ \E id \in 1..MaxIds : QueryStart(id)
  \/ \E id \in 1..MaxIds : QueryReply(id)

SpecView == Init /\ [][ViewNext]_vars

\* ------------------------------------------------------------ the builds
BuildUris == {TexUri}
BuildSettings ==
  {[valid |-> TRUE,
    value |-> [on_save |-> TRUE, forward_search_after |-> f, forward_search |-> FALSE]] :
     f \in BOOLEAN}

\* A client that opens a document, configures, saves and builds, and the
\* pool threads that run the builds.
BuildNext ==
  \/ Initialize(TRUE, FALSE, FALSE)
  \/ \E u \in BuildUris : DidOpen(u, <<>>, "latex")
  \/ \E st \in BuildSettings : DidChangeConfiguration(st)
  \/ \E u \in BuildUris : nextId < BuildIds /\ DidSave(u)
  \/ \E u \in BuildUris : nextId < BuildIds /\ Build(u)
  \/ RecvForwardSearch
  \/ \E id \in 1..MaxIds : BuildStart(id)
  \/ \E id \in 1..MaxIds : BuildLock(id)
  \/ \E id \in 1..MaxIds, st \in {"SUCCESS", "ERROR"} : BuildRun(id, st)
  \/ \E id \in 1..MaxIds : BuildSend(id)
  \/ \E id \in 1..MaxIds : BuildUnlock(id)
  \/ \E id \in 1..MaxIds : BuildCallback(id)

SpecBuild == Init /\ [][BuildNext]_vars

SpecClient == Init /\ [][ClientNext]_vars
SpecDocs == Init /\ [][DocsNext]_vars

\* ------------------------------------------------------------- every job
JobUris == {TexUri}
JobSettings ==
  {[valid |-> TRUE,
    value |-> [on_save |-> FALSE, forward_search_after |-> TRUE, forward_search |-> FALSE]]}

\* Every kind of job the pool runs, beside the main thread: the jobs of
\* initialize, a query, a forked feature request and a build.
JobsNext ==
  \/ \E skip \in BOOLEAN, pull \in BOOLEAN, push \in BOOLEAN : Initialize(skip, pull, push)
  \/ \E u \in JobUris : DidOpen(u, <<>>, "latex")
  \/ \E st \in JobSettings : DidChangeConfiguration(st)
  \/ \E u \in JobUris : Query("completion", u)
  \/ \E u \in JobUris : Feature("references", u)
  \/ \E u \in JobUris : Build(u)
  \/ RecvSetOptions
  \/ RecvSetDistro
  \/ RecvForwardSearch
  \/ \E id \in 1..MaxIds, r \in {<<>>} \cup {<<st>> : st \in JobSettings} : RecvResponse(id, r)
  \/ \E id \in 1..MaxIds : DistroRun(id)
  \/ \E id \in 1..MaxIds : ClientRequest(id)
  \/ \E id \in 1..MaxIds : RegisterEnd(id)
  \/ \E id \in 1..MaxIds : PullEnd(id)
  \/ \E id \in 1..MaxIds : QueryStart(id)
  \/ \E id \in 1..MaxIds : QueryReply(id)
  \/ \E id \in 1..MaxIds : FeatureRun(id)
  \/ \E id \in 1..MaxIds : BuildStart(id)
  \/ \E id \in 1..MaxIds : BuildLock(id)
  \/ \E id \in 1..MaxIds : BuildRun(id, "SUCCESS")
  \/ \E id \in 1..MaxIds : BuildSend(id)
  \/ \E id \in 1..MaxIds : BuildUnlock(id)
  \/ \E id \in 1..MaxIds : BuildCallback(id)

SpecJobs == Init /\ [][JobsNext]_vars

\* ------------------------------------------------------ two builds, fairly
\* Two textDocument/build requests and the pool threads that run them.
PairNext ==
  \/ Initialize(TRUE, FALSE, FALSE)
  \/ \E u \in BuildUris : DidOpen(u, <<>>, "latex")
  \/ \E u \in BuildUris : nextId < BuildIds /\ Build(u)
  \/ \E id \in 1..MaxIds : BuildStart(id)
  \/ \E id \in 1..MaxIds : BuildLock(id)
  \/ \E id \in 1..MaxIds, st \in BuildStatuses : BuildRun(id, st)
  \/ \E id \in 1..MaxIds : BuildSend(id)
  \/ \E id \in 1..MaxIds : BuildUnlock(id)
  \/ \E id \in 1..MaxIds : BuildCallback(id)

\* A pool thread that can take a step takes it, and the compiler ends.
PoolFairness ==
  \A id \in 1..MaxIds :
    /\ WF_vars(BuildStart(id))
    /\ WF_vars(BuildLock(id))
    /\ WF_vars(\E st \in BuildStatuses : BuildRun(id, st))
    /\ WF_vars(BuildSend(id))
    /\ WF_vars(BuildUnlock(id))
    /\ WF_vars(BuildCallback(id))

SpecPair == Init /\ [][PairNext]_vars /\ PoolFairness

\* ------------------------------------------------------- one didChange
\* The texts, positions and changes of the edits explored.
EditTexts == SeqsUpTo(MaxLen - 2)
EditPositions == [line : 0..(MaxPos - 1), character : 0..(MaxPos - 1)]
Before(p, q) == p.line < q.line \/ (p.line = q.line /\ p.character <= q.character)
\* A range is replaced by a newline, the character the line index turns on.
EditChanges ==
  {RangeChange(r[1], r[2], <<NL>>) :
     r \in {x \in EditPositions \X EditPositions : Before(x[1], x[2])}}
  \cup {FullChange(<<"a", NL>>)}
EditBatches ==
  UNION {[1..n -> EditChanges] : n \in 0..MaxBatch}

\* did_change's loop applied to a document of text arg.text.
Edit ==
  /\ res = <<>>
  /\ DOMAIN arg = {"text", "batch"}
  /\ res' = <<ApplyChanges([text |-> arg.text, language |-> "Tex", owner |-> "Client",
                            cursor |-> 0], arg.batch).text>>
  /\ UNCHANGED <<docs, options, caps, distro, workspace, disk, poolVars, internal, out,
                 nextId, phase, opened, last, arg, diagVars, amVars>>

InitEdit == \E a \in [text : EditTexts, batch : EditBatches] : Start(a)

SpecEdit == InitEdit /\ [][Edit]_vars

\* ================================================================ properties
\* The responses on the output channel that answer request id.
Responses(id) ==
  {out[k] : k \in {i \in DOMAIN out : "ok" \in DOMAIN out[i] /\ out[i].id = id}}
\* The build jobs whose compiler is running, and those inside the lock.
Compiling == {id \in 1..MaxIds : jobs[id].method = "build" /\ jobs[id].pc = "run"}
Locked == {id \in 1..MaxIds : jobs[id].method = "build" /\ jobs[id].pc \in {"run", "ran", "sent"}}
\* A step of a pool thread: a job that was queued or running moves on.
JobStep ==
  \E id \in 1..MaxIds :
    /\ jobs[id].pc \notin {"free", "await", "done"}
    /\ jobs'[id].pc # jobs[id].pc

\* C1: at most one build is running at any time, whatever the interleaving
\* of textDocument/build requests and builds started by didSave.
OneBuildAtATime == Cardinality(Compiling) <= 1

\* A build started by didSave runs while a requested build waits for the
\* lock (or the other way round).
BuildWaitsForBuild ==
  \E i \in 1..MaxIds, j \in 1..MaxIds :
    /\ jobs[i].method = "build" /\ jobs[i].pc = "run"
    /\ jobs[j].method = "build" /\ jobs[j].pc = "lock"
    /\ jobs[i].reply # jobs[j].reply

\* C2: of two textDocument/build requests in flight, the second waits until
\* the first has left the lock; every build request is eventually answered
\* with a status; and the lock a build holds is eventually released, whatever
\* the status of that build.
BuildsTakeTurns ==
  /\ [](Cardinality(Locked) <= 1 /\ (lock = 0 <=> Locked = {}) /\ (lock # 0 => Locked = {lock}))
  /\ \A id \in 1..MaxIds :
       (jobs[id].method = "build" /\ jobs[id].reply)
         ~> (\E m \in Responses(id) : m.ok /\ m.body \in {<<st>> : st \in BuildStatuses})
  /\ \A id \in 1..MaxIds, st \in BuildStatuses :
       (lock = id /\ jobs[id].status = st) ~> (lock # id)

\* Two builds were answered, one that succeeded and one that failed, and
\* the lock is free.
BothBuildsAnswered ==
  /\ lock = 0
  /\ \E i \in 1..MaxIds, j \in 1..MaxIds :
       /\ RespOk(i, <<"SUCCESS">>) \in Responses(i)
       /\ RespOk(j, <<"ERROR">>) \in Responses(j)

\* C3: the response to a read request of any kind reflects the document as
\* the main thread had it when the request was dispatched, every mutation
\* processed before included.
ReadObservesMutations ==
  \A id \in 1..MaxIds :
    jobs[id].method \in ReadMethods =>
      \A m \in Responses(id) : jobs[id].at # <<>> => (m.ok /\ m.body = jobs[id].at)

\* C4: the view of a query job is the database as it was when the request
\* was dispatched, whatever the main thread has changed since, and what the
\* job answers comes from that one state.
ViewIsDispatchState ==
  \A id \in 1..MaxIds :
    jobs[id].method \in QueryMethods \cup {"hover"} =>
      /\ jobs[id].pc \in {"queued", "read"} =>
           DocFacts(View(id), jobs[id].uri) = jobs[id].at
      /\ \A m \in Responses(id) : m.ok /\ m.body = jobs[id].at

\* A query job has read the text and has not answered, and the main thread
\* has changed the document since the request was dispatched.
MutationDuringRead ==
  \E id \in 1..MaxIds :
    /\ jobs[id].pc = "read"
    /\ jobs[id].at # <<>>
    /\ DocFacts(docs, jobs[id].uri) # jobs[id].at
    /\ DocFacts(docs, jobs[id].uri) # <<>>
    /\ DocFacts(docs, jobs[id].uri)[1].text # jobs[id].at[1].text

\* C5: a step of a pool thread leaves the document store, the options, the
\* capabilities and the distribution as they are; what a job found reaches
\* them only when the main thread takes the job's message off the internal
\* channel, and a job's step touches nothing but the pool, the internal
\* channel and the output channel.
OnlyMainThreadWrites ==
  [][/\ JobStep => UNCHANGED <<docs, options, caps, distro, workspace, phase>>
     /\ options' # options =>
          /\ ~JobStep
          /\ last'.msg \in {"SetOptions", "didChangeConfiguration"}
     /\ distro' # distro =>
          /\ ~JobStep
          /\ internal # <<>> /\ Head(internal).type = "SetDistro"
          /\ internal' = Tail(internal)]_vars

\* The options a pull_options job fetched and the distribution the job of
\* initialize detected are in the database, written by the main thread.
JobResultsWritten ==
  /\ last.msg = "SetOptions"
  /\ options # DefaultOptions
  /\ distro = "detected"
  /\ \E id \in 1..MaxIds : jobs[id].method = "pullOptions" /\ jobs[id].pc = "done"
  /\ \E id \in 1..MaxIds : jobs[id].method = "distro" /\ jobs[id].pc = "done"

\* C6: a feature request whose URI named no document when it was dispatched
\* is answered with the error InvalidRequest, "unknown document", whatever
\* its kind, and the server keeps running.
UnknownDocumentIsError ==
  \A id \in 1..MaxIds :
    (jobs[id].method \in ReadMethods \ {"workspaceSymbol"} /\ jobs[id].at = <<>>) =>
      /\ phase = "running"
      /\ \A m \in Responses(id) :
           ~m.ok /\ m.code = "InvalidRequest" /\ m.message = "unknown document"

\* ---- the reference buffer of C7: a text kept as its list of lines
RECURSIVE SplitLines(_)
SplitLines(t) ==
  IF \A i \in 1..Len(t) : t[i] # NL THEN <<t>>
  ELSE LET i == CHOOSE k \in 1..Len(t) : t[k] = NL /\ \A j \in 1..(k - 1) : t[j] # NL
       IN <<SubSeq(t, 1, i - 1)>> \o SplitLines(SubSeq(t, i + 1, Len(t)))

RECURSIVE JoinLines(_)
JoinLines(ls) ==
  IF Len(ls) = 1 THEN ls[1] ELSE ls[1] \o <<NL>> \o JoinLines(Tail(ls))

\* A position brought into the buffer: past the last line it is the end of
\* the text, past the end of its line it is the end of that line.
RefClamp(ls, pos) ==
  IF pos.line >= Len(ls) THEN [line |-> Len(ls) - 1, character |-> Len(ls[Len(ls)])]
  ELSE [line |-> pos.line, character |-> Min(pos.character, Len(ls[pos.line + 1]))]

RefBefore(ls, p) ==
  JoinLines(SubSeq(ls, 1, p.line) \o <<SubSeq(ls[p.line + 1], 1, p.character)>>)
RefAfter(ls, p) ==
  JoinLines(<<SubSeq(ls[p.line + 1], p.character + 1, Len(ls[p.line + 1]))>>
            \o SubSeq(ls, p.line + 2, Len(ls)))

RefEdit(t, change) ==
  IF change.range = <<>> THEN change.text
  ELSE LET ls == SplitLines(t)
       IN RefBefore(ls, RefClamp(ls, change.range[1].start))
          \o change.text
          \o RefAfter(ls, RefClamp(ls, change.range[1].end))

RECURSIVE RefReplay(_, _)
RefReplay(t, batch) ==
  IF batch = <<>> THEN t ELSE RefReplay(RefEdit(t, Head(batch)), Tail(batch))

\* C7: the edits of one didChange are applied in order, each range converted
\* with the line index of the text as the preceding edits left it: the text
\* that results is the text of the reference buffer after the same edits.
EditsReplayInOrder ==
  res # <<>> => res[1] = RefReplay(arg.text, arg.batch)

\* A batch of two ranged edits was applied whose second range falls
\* elsewhere once the first edit is made.
SecondEditDependsOnFirst ==
  /\ res # <<>>
  /\ Len(arg.batch) = 2
  /\ arg.batch[1].range # <<>>
  /\ arg.batch[2].range # <<>>
  /\ LET mid == RefEdit(arg.text, arg.batch[1])
         r == arg.batch[2].range[1]
     IN \/ OffsetLsp(mid, r.start) # OffsetLsp(arg.text, r.start)
        \/ OffsetLsp(mid, r.end) # OffsetLsp(arg.text, r.end)
  /\ res[1] # arg.text

\* C8: a document a didOpen named is in the document set ever after, through
\* every didOpen, didChange and didClose; after a didClose of a known
\* document that document is there and its owner is Server.
ClosedDocumentStays ==
  /\ opened \subseteq DOMAIN docs
  /\ last.msg = "didClose" =>
       \A u \in opened : last.uris = <<u>> => docs[u].owner = "Server"

\* An opened document was closed: it is still there, owned by the server.
ClosedAndKept ==
  /\ last.msg = "didClose"
  /\ \E u \in opened : last.uris = <<u>> /\ u \in DOMAIN docs /\ docs[u].owner = "Server"

\* The message the main thread is taking off the internal channel in this
\* step is a file event of this kind naming u.
FileEventStep(kinds) ==
  /\ internal # <<>>
  /\ Head(internal).type = "FileEvent"
  /\ Head(internal).kind \in kinds
  /\ internal' = Tail(internal)
Names(event, u) == \E i \in DOMAIN event.paths : event.paths[i] = u

\* C9: a document leaves the document set only in the step that handles a
\* watcher Remove event naming it while its owner is Server; no other step
\* removes a document and a Client-owned document survives its Remove.
OnlyRemoveEventDestroys ==
  [][\A u \in DOMAIN docs :
       u \notin DOMAIN docs' =>
         /\ FileEventStep({"Remove"})
         /\ Names(Head(internal), u)
         /\ docs[u].owner = "Server"]_vars

\* One Remove event named a Server-owned and a Client-owned document: the
\* first, once opened by the client, is gone, the second is still there.
RemoveTookServerOwned ==
  /\ last.msg = "Remove"
  /\ last.uris = <<TexUri, TxtUri>>
  /\ TexUri \in opened /\ TexUri \notin DOMAIN docs
  /\ TxtUri \in DOMAIN docs /\ docs[TxtUri].owner = "Client"

\* C10: the step that handles a watcher event leaves every Client-owned
\* document as it is (text, owner, cursor), changes by Create / Modify only
\* documents that were unknown or Server-owned, and creates no document
\* for an unknown path whose extension names no language.
WatcherSparesClientDocuments ==
  [][FileEventStep(EventKinds) =>
       \A u \in Uri :
         /\ (u \in DOMAIN docs /\ docs[u].owner = "Client") =>
              (u \in DOMAIN docs' /\ docs'[u] = docs[u])
         /\ (u \notin DOMAIN docs /\ LanguageFromPath(u) = <<>>) => u \notin DOMAIN docs'
         /\ (u \in DOMAIN docs' /\ (u \notin DOMAIN docs \/ docs'[u] # docs[u])) =>
              /\ Head(internal).kind \in {"Create", "Modify"}
              /\ Names(Head(internal), u)]_vars

\* One Modify event named a Client-owned document whose file differs from
\* its text and a file of no recognized language: neither was loaded.
ModifySparedClientDocument ==
  /\ last.msg = "Modify"
  /\ last.uris = <<TexUri, TxtUri>>
  /\ TexUri \in DOMAIN docs /\ docs[TexUri].owner = "Client"
  /\ TexUri \in DOMAIN disk /\ disk[TexUri] # docs[TexUri].text
  /\ TxtUri \in DOMAIN disk /\ TxtUri \notin DOMAIN docs

\* ------------------------------------------------- includes and the watcher
\* A client that opens, edits and closes main.tex, with or without its
\* \bibliography, while main.tex and refs.bib come and go on disk.
IncludeTexts == {<<>>, <<BibTok>>}
IncludeNext ==
  \/ Initialize(TRUE, FALSE, FALSE)
  \/ \E t \in IncludeTexts : DidOpen(TexUri, t, "latex")
  \/ \E t \in IncludeTexts : DidChange(TexUri, <<FullChange(t)>>)
  \/ DidClose(TexUri)
  \/ \E k \in {"Create", "Modify", "Remove"}, p \in {TexUri, BibUri} : WatcherEvent(k, <<p>>)
  \/ \E t \in IncludeTexts : FsWrite(TexUri, t)
  \/ FsWrite(BibUri, <<"a">>)
  \/ \E p \in {TexUri, BibUri} : FsDelete(p)
  \/ RecvFileEvent

SpecInclude == Init /\ [][IncludeNext]_vars

\* C11: every step that changes the document set by a didOpen, a didChange
\* or a watcher Create / Modify ends with discovery done: no include target
\* of a loaded document that can be loaded is left unloaded when the next
\* message is handled.
DiscoveryAfterEveryMutation ==
  [][(/\ docs' # docs
       /\ \/ FileEventStep({"Create", "Modify"})
          \/ (internal' = internal /\ last'.msg \in {"didOpen", "didChange"}))
        => Discover(docs', disk') = docs']_vars

\* ------------------------------------------------------- one discovery
\* Texts with their includes, among them two files that include each other.
GraphTexts == {<<>>, <<ChapTok>>, <<MainTok>>, <<BibTok>>, <<ChapTok, BibTok>>}
TexDoc(text, owner) == [text |-> text, language |-> "Tex", owner |-> owner, cursor |-> 0]
\* The TeX documents loaded before the discovery, and the files on disk.
LoadedSets ==
  UNION {[S -> {TexDoc(t, "Client") : t \in GraphTexts}] : S \in SUBSET {TexUri, ChapUri}}
DiskSets ==
  UNION {[S -> GraphTexts] : S \in SUBSET {TexUri, ChapUri, BibUri}}

InitDiscover == \E a \in [docs : LoadedSets, disk : DiskSets] : Start(a)

\* Workspace::discover applied to the documents arg.docs over the disk arg.disk.
RunDiscover ==
  /\ res = <<>>
  /\ DOMAIN arg = {"docs", "disk"}
  /\ res' = <<DiscoverRound(arg.docs, arg.disk, <<>>, <<>>)>>
  /\ UNCHANGED <<docs, options, caps, distro, workspace, disk, poolVars, internal, out,
                 nextId, phase, opened, last, arg, diagVars, amVars>>

SpecDiscover == InitDiscover /\ [][RunDiscover]_vars

NoRepeat(seq) == \A i \in DOMAIN seq, j \in DOMAIN seq : seq[i] = seq[j] => i = j

\* C12: a round of discovery ends, cycles of includes or not; it tries no
\* path twice, loads each path that became resolvable once and nothing
\* else, leaves no loadable include target unloaded, and a second round
\* right after it loads nothing and changes nothing.
DiscoveryEndsAndIsIdempotent ==
  res # <<>> =>
    LET r == res[1]
        again == DiscoverRound(r.docs, arg.disk, <<>>, <<>>)
    IN /\ NoRepeat(r.tries)
       /\ NoRepeat(r.loads)
       /\ Tried(r.loads) \subseteq Tried(r.tries) \cap DOMAIN arg.disk
       /\ DOMAIN r.docs = DOMAIN arg.docs \cup Tried(r.loads)
       /\ Tried(r.loads) \cap DOMAIN arg.docs = {}
       /\ \A u \in DOMAIN arg.docs : r.docs[u] = arg.docs[u]
       /\ \A u \in Tried(r.loads) :
            r.docs[u].owner = "Server" /\ r.docs[u].text = arg.disk[u]
       /\ \A u \in DOMAIN r.docs : \A p \in Includes(r.docs[u].text) :
            (p \in DOMAIN arg.disk /\ LanguageFromPath(p) # <<>>) => p \in DOMAIN r.docs
       /\ again.docs = r.docs
       /\ again.loads = <<>>

\* main.tex includes chap.tex and refs.bib, chap.tex on disk includes
\* main.tex back, refs.bib is not on disk: chap.tex was loaded, refs.bib tried.
DiscoveredThroughCycle ==
  /\ res # <<>>
  /\ DOMAIN arg.docs = {TexUri}
  /\ arg.docs[TexUri].text = <<ChapTok, BibTok>>
  /\ ChapUri \in DOMAIN arg.disk /\ arg.disk[ChapUri] = <<MainTok>>
  /\ BibUri \notin DOMAIN arg.disk
  /\ res[1].loads = <<ChapUri>>
  /\ Tried(res[1].tries) = {ChapUri, BibUri}

\* ------------------------------------------------------ one project graph
\* The loaded documents of the graphs explored: two TeX files with their
\* includes, and a bibliography.
ProjectTexts == GraphTexts \cup {<<ClassTok, ChapTok>>, <<ClassTok>>}
ProjectSets ==
  UNION {[S -> {TexDoc(t, "Client") : t \in ProjectTexts}
               \cup {[text |-> <<>>, language |-> "Bib", owner |-> "Server", cursor |-> 0]}] :
         S \in SUBSET {TexUri, ChapUri, BibUri}}

InitGraph == \E a \in [docs : ProjectSets] : Start(a)

\* Workspace::related and Workspace::root of every loaded document of arg.docs.
RunGraph ==
  /\ res = <<>>
  /\ DOMAIN arg = {"docs"}
  /\ res' = <<[related |-> [u \in DOMAIN arg.docs |-> Related(arg.docs, u)],
                root |-> [u \in DOMAIN arg.docs |-> Root(arg.docs, u)]]>>
  /\ UNCHANGED <<docs, options, caps, distro, workspace, disk, poolVars, internal, out,
                 nextId, phase, opened, last, arg, diagVars, amVars>>

SpecGraph == InitGraph /\ [][RunGraph]_vars

\* C13: related is reflexive, symmetric and transitive on the loaded
\* documents, and it is connectivity under the include edges read in both
\* directions: no edge leaves a class and no class falls into two parts
\* without an edge between them; the computation ends on cyclic graphs too.
RelatedIsEquivalence ==
  res # <<>> =>
    LET d == arg.docs
        rel == res[1].related
    IN /\ \A u \in DOMAIN d : u \in rel[u] /\ rel[u] \subseteq DOMAIN d
       /\ \A u \in DOMAIN d : \A v \in rel[u] : u \in rel[v]
       /\ \A u \in DOMAIN d : \A v \in rel[u] : rel[v] \subseteq rel[u]
       /\ \A e \in Edges(d) : e[2] \in rel[e[1]]
       /\ \A u \in DOMAIN d : \A part \in SUBSET rel[u] :
            (part # {} /\ part # rel[u]) =>
              \E e \in Edges(d) : (e[1] \in part) # (e[2] \in part) /\ {e[1], e[2]} \subseteq rel[u]

\* main.tex and chap.tex include each other and main.tex includes
\* refs.bib: the three are one class, found from refs.bib too.
RelatedAcrossCycle ==
  /\ res # <<>>
  /\ DOMAIN arg.docs = {TexUri, ChapUri, BibUri}
  /\ <<TexUri, ChapUri>> \in Edges(arg.docs)
  /\ <<ChapUri, TexUri>> \in Edges(arg.docs)
  /\ <<TexUri, BibUri>> \in Edges(arg.docs)
  /\ res[1].related[BibUri] = {TexUri, ChapUri, BibUri}

\* The members of the class of u that no loaded document includes.
Tops(d, rel, u) == {v \in rel[u] : \A e \in Edges(d) : e[2] # v}

\* C14: the root of a loaded document is a member of its class; when one
\* member only of the class is included by nothing, that member is the
\* root, of the document and of every other member of the class.
RootIsInProject ==
  res # <<>> =>
    LET d == arg.docs
        rel == res[1].related
        root == res[1].root
    IN \A u \in DOMAIN d :
         /\ root[u] \in rel[u]
         /\ Cardinality(Tops(d, rel, u)) = 1 =>
              /\ root[u] \in Tops(d, rel, u)
              /\ \A v \in rel[u] : root[v] = root[u]

\* main.tex includes chap.tex and refs.bib and nothing includes main.tex:
\* it is the root of the two others.
RootOfIncluded ==
  /\ res # <<>>
  /\ DOMAIN arg.docs = {TexUri, ChapUri, BibUri}
  /\ arg.docs[TexUri].text = <<ChapTok, BibTok>>
  /\ Tops(arg.docs, res[1].related, ChapUri) = {TexUri}
  /\ res[1].root[ChapUri] = TexUri
  /\ res[1].root[BibUri] = TexUri

\* C15: a build job sends the internal ForwardSearch message for its URI if
\* and only if forward search after build is enabled and the compiler ended
\* with SUCCESS; after any other status it sends none.
ForwardSearchOnlyAfterSuccess ==
  [][\A id \in 1..MaxIds :
       (jobs[id].method = "build" /\ jobs[id].pc = "ran" /\ jobs'[id].pc = "sent") =>
         IF jobs[id].fwd /\ jobs[id].status = "SUCCESS"
         THEN internal' = Append(internal, [type |-> "ForwardSearch", uri |-> jobs[id].uri])
         ELSE internal' = internal]_vars

\* ------------------------------------------------------- forward searches
ForwardSettings ==
  {[valid |-> TRUE,
    value |-> [on_save |-> FALSE, forward_search_after |-> FALSE, forward_search |-> c]] :
     c \in BOOLEAN}

\* A client that asks for forward searches, of a document it has opened or
\* not, with the viewer configured or not.
ForwardNext ==
  \/ Initialize(TRUE, FALSE, FALSE)
  \/ DidOpen(TexUri, <<>>, "latex")
  \/ \E st \in ForwardSettings : DidChangeConfiguration(st)
  \/ \E v \in ViewerStatuses : ForwardSearch(TexUri, v)

SpecForward == Init /\ [][ForwardNext]_vars

\* C16: a forward-search request handled while no viewer is configured is
\* answered with status UNCONFIGURED, whatever its URI.
UnconfiguredForwardSearch ==
  [][(last'.msg = "forwardSearch" /\ nextId' = nextId + 1 /\ ~options.forward_search) =>
       /\ jobs'[nextId'].status = "UNCONFIGURED"
       /\ out' = Append(out, RespOk(nextId', <<"UNCONFIGURED">>))]_vars

\* The places of the output channel that hold a response to request id.
ResponsesAt(id) == {k \in DOMAIN out : "ok" \in DOMAIN out[k] /\ out[k].id = id}

\* C17: a build request that gets no compiler, or whose compiler ends with
\* FAILURE because it could not be started, is answered with FAILURE, once
\* and never twice, and the lock is not held by it afterwards.
FailedBuildAnsweredOnce ==
  /\ [](\A id \in 1..MaxIds :
          (jobs[id].method = "build" /\ jobs[id].reply) =>
            /\ Cardinality(ResponsesAt(id)) <= 1
            /\ jobs[id].pc \in {"queued", "lock", "unlocked", "done"} => lock # id
            /\ (jobs[id].pc = "done" /\ jobs[id].status = "FAILURE") =>
                 \E k \in ResponsesAt(id) : out[k] = RespOk(id, <<"FAILURE">>))
  /\ \A id \in 1..MaxIds :
       (jobs[id].method = "build" /\ jobs[id].reply /\ jobs[id].status = "FAILURE")
         ~> (RespOk(id, <<"FAILURE">>) \in Responses(id) /\ lock # id)

\* Two builds of a document that is not loaded, for which there is no
\* compiler, were answered with FAILURE, and the lock is free.
NoCompilerAnswered ==
  /\ TexUri \notin DOMAIN docs
  /\ lock = 0
  /\ out = <<RespOk(0, <<"initialize">>), RespOk(1, <<"FAILURE">>), RespOk(2, <<"FAILURE">>)>>

\* ------------------------------------------------ configuration that fails
\* The settings a client sends: two that parse and one that does not.
ConfigSettings ==
  {[valid |-> TRUE,
    value |-> [on_save |-> c, forward_search_after |-> FALSE, forward_search |-> FALSE]] :
     c \in BOOLEAN}
  \cup {[valid |-> FALSE, value |-> DefaultOptions]}

\* A client that pushes settings, or answers the server's pull with them,
\* and goes on opening a document.
ConfigNext ==
  \/ \E pull \in BOOLEAN : Initialize(TRUE, pull, FALSE)
  \/ DidOpen(TexUri, <<>>, "latex")
  \/ \E st \in ConfigSettings : DidChangeConfiguration(st)
  \/ \E id \in 1..MaxIds : ClientRequest(id)
  \/ \E id \in 1..MaxIds, r \in {<<>>} \cup {<<st>> : st \in ConfigSettings} :
       RecvResponse(id, r)
  \/ \E id \in 1..MaxIds : PullEnd(id)
  \/ RecvSetOptions

SpecConfig == Init /\ [][ConfigNext]_vars

\* The step that handles pushed settings which do not parse.
PushedParseFailure ==
  /\ ~caps.pull
  /\ \E st \in ConfigSettings : ParseOptions(st) = <<>> /\ DidChangeConfiguration(st)

\* The step in which a pull_options job meets settings which do not parse.
PulledParseFailure ==
  \E id \in 1..MaxIds :
    /\ PullEnd(id)
    /\ jobs[id].seen # <<>>
    /\ ParseOptions(jobs[id].seen[1]) = <<>>

\* C18: when pushed or pulled settings fail to parse, the options in force
\* stay in force, no SetOptions message is sent, and the message loop goes
\* on: the server is still running.
ParseFailureKeepsServing ==
  [][(PushedParseFailure \/ PulledParseFailure) =>
       /\ options' = options
       /\ internal' = internal
       /\ phase' = "running"]_vars

\* -------------------------------------------------------------- lifecycle
\* A client that sends messages before the handshake, works with a
\* document, asks for the handshake again, and shuts the server down.
LifecycleNext ==
  \/ \E refuse \in BOOLEAN : EarlyRequest("completion", refuse)
  \/ \E drop \in BOOLEAN : EarlyNotification(drop)
  \/ Initialize(TRUE, FALSE, FALSE)
  \/ DidOpen(TexUri, <<>>, "latex")
  \/ Query("completion", TexUri)
  \/ \E id \in 1..MaxIds : QueryStart(id)
  \/ \E id \in 1..MaxIds : QueryReply(id)
  \/ LateInitialize
  \/ Shutdown
  \/ ExitAfterShutdown
  \/ RequestAfterShutdown("completion")
  \/ PoolJoin

SpecLifecycle == Init /\ [][LifecycleNext]_vars

\* C19: once shutdown has been answered, a further request is answered
\* with an error and queues no job, and exit ends the message loop.
ShutdownRefusesRequests ==
  [][(phase = "shutdown" /\ last'.msg # "job") =>
       IF last'.msg = "exit"
       THEN phase' \in {"joining", "exited"}
       ELSE /\ queue' = queue
            /\ nextId' = nextId + 1
            /\ Len(out') = Len(out) + 1
            /\ "ok" \in DOMAIN out'[Len(out')]
            /\ ~out'[Len(out')].ok
            /\ out'[Len(out')].id = nextId']_vars

\* The places of the output channel that hold the answer to initialize.
InitializeAnswers == {k \in DOMAIN out : out[k] = RespOk(0, <<"initialize">>)}

\* C20: the handshake is completed once and first: until initialize has
\* been answered no document is stored, no job is queued or run and no
\* request is answered but with an error; initialize is answered, and the
\* capabilities are set, only by the step that leaves the state before the
\* handshake, so never a second time.
HandshakeOnceAndFirst ==
  /\ [](InitializeAnswers = {} =>
          /\ docs = <<>>
          /\ opened = {}
          /\ caps = NoCaps
          /\ queue = <<>>
          /\ \A id \in 1..MaxIds : jobs[id].pc \in {"free", "done"}
          /\ \A k \in DOMAIN out : "ok" \in DOMAIN out[k] /\ ~out[k].ok)
  /\ [](Cardinality(InitializeAnswers) <= 1)
  /\ [][(caps' # caps \/ InitializeAnswers' # InitializeAnswers) =>
          /\ phase = "new"
          /\ phase' = "running"
          /\ InitializeAnswers = {}]_vars

\* A request sent before the handshake was refused, the handshake was
\* answered, a document was opened and a second initialize was refused.
SecondInitializeRefused ==
  /\ Len(out) = 3
  /\ out[1] = RespErr(1, "ServerNotInitialized", "expected initialize request")
  /\ out[2] = RespOk(0, <<"initialize">>)
  /\ out[3] = RespErr(2, "MethodNotFound", "Unknown request")
  /\ TexUri \in DOMAIN docs
  /\ phase = "running"

\* ------------------------------------------------------------- debouncing
\* The snapshots sent to the debouncer: each has a document to publish.
DebounceItems ==
  {ws \in Snapshots :
     /\ WellTyped(ws)
     /\ TexUri \in DOMAIN ws
     /\ BibUri \notin DOMAIN ws
     /\ ws[TexUri].diagnostics # <<>>
     /\ \A u \in DOMAIN ws : u # TexUri => ws[u].diagnostics = <<>>}

\* Items arrive at the debouncer while its clock runs.
DebounceNext ==
  \/ \E item \in DebounceItems : DebouncerSend(item)
  \/ DebouncerTick

\* The clock runs on.
SpecDebounce == Init /\ [][DebounceNext]_vars /\ WF_vars(DebouncerTick)

\* C21: the debouncer publishes when, and only when, the delay has passed
\* since the last item was sent, so once per quiet period; what it
\* publishes is the last item sent, with one notification per URI; and the
\* last item of a burst is published in the end.
DebouncedPublication ==
  /\ [][(out' # out) <=> (quiet = Delay - 1 /\ quiet' = Delay /\ timer' < timer)]_vars
  /\ [][(out' # out) =>
          /\ out' = out \o PublishDiagnostics(sent[Len(sent)])
          /\ \A j, k \in (DOMAIN out') \ (DOMAIN out) : out'[j].uri = out'[k].uri => j = k
          /\ pending' = <<>>]_vars
  /\ \A n \in 1..MaxSends :
       (Len(sent) = n) ~>
         \/ Len(sent) > n
         \/ /\ Len(sent) = n
            /\ pending = <<>>
            /\ Len(out) >= Len(PublishDiagnostics(sent[n]))
            /\ SubSeq(out, Len(out) - Len(PublishDiagnostics(sent[n])) + 1, Len(out))
                 = PublishDiagnostics(sent[n])

\* Three different items were sent in a burst, and all that was published
\* is the last of them.
BurstPublishedOnce ==
  /\ Len(sent) = 3
  /\ sent[1] # sent[2]
  /\ sent[2] # sent[3]
  /\ sent[1] # sent[3]
  /\ pending = <<>>
  /\ out = PublishDiagnostics(sent[3])

\* ------------------------------------------------------------ publication
\* publish_diagnostics applied to a workspace snapshot.
InitPublish == \E ws \in Snapshots : Start(ws)
RunPublish ==
  /\ res = <<>>
  /\ res' = <<PublishDiagnostics(arg)>>
  /\ UNCHANGED <<docs, options, caps, distro, workspace, disk, queue, jobs, lock, internal, out,
                 nextId, phase, opened, last, arg, diagVars, amVars>>

SpecPublish == InitPublish /\ [][RunPublish]_vars

\* The places of a publication that hold a notification for document u.
NotifiedAt(batch, u) == {k \in DOMAIN batch : batch[k].uri = u}

\* C22: a publication holds, for every document of the snapshot that is
\* not a build log, one publishDiagnostics notification with the whole
\* list of the document's diagnostics, and none for a build log or for a
\* URI the snapshot does not hold.
PublishesAllButLogs ==
  res # <<>> =>
    /\ \A u \in DOMAIN arg :
         IF arg[u].data = "BuildLog"
         THEN NotifiedAt(res[1], u) = {}
         ELSE /\ Cardinality(NotifiedAt(res[1], u)) = 1
              /\ \A k \in NotifiedAt(res[1], u) :
                   res[1][k] = Notification(u, arg[u].diagnostics)
    /\ \A k \in DOMAIN res[1] : res[1][k].uri \in DOMAIN arg

\* A snapshot with a document that has two diagnostics and a build log
\* that has one was published.
LogLeftOut ==
  /\ DOMAIN arg = {TexUri, LogUri}
  /\ arg[TexUri] = [data |-> "Latex", diagnostics |-> <<"e1", "e2">>]
  /\ arg[LogUri] = [data |-> "BuildLog", diagnostics |-> <<"e1">>]
  /\ res = <<<<Notification(TexUri, <<"e1", "e2">>)>>>>

\* --------------------------------------------------------- response order
\* The places of the output channel that hold the response to a numbered
\* request (the answer to initialize is numbered 0 whenever it is sent).
NumberedResponses == {k \in DOMAIN out : "ok" \in DOMAIN out[k] /\ out[k].id > 0}

\* C23: the responses on the output channel are in the order in which
\* their requests were received: a response never follows the response of
\* a request received later.
ResponsesInRequestOrder ==
  \A j, k \in NumberedResponses : j < k => out[j].id < out[k].id

\* ---------------------------------------------------------------- session
\* A client that sends requests, cancels them, and goes away.
SessionNext ==
  \/ Initialize(TRUE, FALSE, FALSE)
  \/ DidOpen(TexUri, <<>>, "latex")
  \/ Query("completion", TexUri)
  \/ \E id \in 1..MaxIds : QueryStart(id)
  \/ \E id \in 1..MaxIds : QueryReply(id)
  \/ \E id \in 1..MaxIds : Cancel(id)
  \/ Disconnect

SpecSession == Init /\ [][SessionNext]_vars

\* C24: the step that handles $/cancelRequest leaves the main thread in
\* its loop and changes nothing of the server: documents, options, the
\* queue, the jobs and the output channel are as before.
CancelChangesNothing ==
  [][last'.msg = "cancel" =>
       /\ phase' = "running"
       /\ UNCHANGED <<docs, options, caps, distro, workspace, disk, queue, jobs, lock,
                      internal, out, nextId>>]_vars

\* A completion request whose job a pool thread is running was cancelled:
\* the job is still running, and will send the response.
CancelledRequestStillRuns ==
  /\ last.msg = "cancel"
  /\ jobs[last.target].method = "completion"
  /\ jobs[last.target].pc = "read"
  /\ Responses(last.target) = {}

\* C25: when the input channel is disconnected the server ends as after
\* exit: run returns success.
DisconnectIsNormalExit ==
  [][last'.msg = "disconnect" => phase' \in {"joining", "exited"}]_vars

\* ----------------------------------------------------------------- viewer
ViewerSettings ==
  {[valid |-> TRUE,
    value |-> [on_save |-> FALSE, forward_search_after |-> f, forward_search |-> TRUE]] :
     f \in BOOLEAN}

\* A client with a viewer configured that asks for builds and forward
\* searches.
ViewerNext ==
  \/ Initialize(TRUE, FALSE, FALSE)
  \/ DidOpen(TexUri, <<>>, "latex")
  \/ \E st \in ViewerSettings : DidChangeConfiguration(st)
  \/ ForwardSearchBegin(TexUri)
  \/ RecvForwardSearchBegin
  \/ \E v \in ViewerStatuses : ViewerReturns(v)
  \/ nextId < BuildIds /\ Build(TexUri)
  \/ \E id \in 1..MaxIds : BuildStart(id)
  \/ \E id \in 1..MaxIds : BuildLock(id)
  \/ \E id \in 1..MaxIds : BuildRun(id, "SUCCESS")
  \/ \E id \in 1..MaxIds : BuildSend(id)
  \/ \E id \in 1..MaxIds : BuildUnlock(id)
  \/ \E id \in 1..MaxIds : BuildCallback(id)

SpecViewer == Init /\ [][ViewerNext]_vars

\* C26: the main thread never waits for an external process to end: it is
\* never inside the call that runs the viewer, and while a compiler runs
\* in a job it is in its loop.
MainThreadNeverWaits ==
  /\ phase # "viewer"
  /\ Compiling # {} => phase \in {"running", "shutdown", "joining"}

\* ----------------------------------------------------------------- panics
\* Queries and builds of an open document, any of which may panic.
PanicNext ==
  \/ Initialize(TRUE, FALSE, FALSE)
  \/ DidOpen(TexUri, <<>>, "latex")
  \/ Query("completion", TexUri)
  \/ Build(TexUri)
  \/ \E id \in 1..MaxIds : QueryStart(id)
  \/ \E id \in 1..MaxIds : QueryReply(id)
  \/ \E id \in 1..MaxIds : BuildStart(id)
  \/ \E id \in 1..MaxIds : BuildLock(id)
  \/ \E id \in 1..MaxIds : BuildLockPoisoned(id)
  \/ \E id \in 1..MaxIds : BuildRun(id, "SUCCESS")
  \/ \E id \in 1..MaxIds : BuildSend(id)
  \/ \E id \in 1..MaxIds : BuildUnlock(id)
  \/ \E id \in 1..MaxIds : BuildCallback(id)
  \/ \E id \in 1..MaxIds : JobPanic(id)

SpecPanic == Init /\ [][PanicNext]_vars

\* C27: a panic in a job costs the response of that job's request and
\* nothing else: the main thread stays in its loop, and every other
\* request whose job has ended, builds included, has its response.
PanicCostsOneResponse ==
  /\ [](phase \in {"new", "running"})
  /\ [](\A id \in 1..MaxIds :
          (jobs[id].method \in {"completion", "build"} /\ jobs[id].pc = "done"
             /\ jobs[id].status # "PANIC")
            => Responses(id) # {})

\* ------------------------------------------------- edits and metadata
\* A client that opens, edits, hovers over and closes main.tex, with or
\* without its \bibliography, while refs.bib comes and goes on disk.
MetaTexts == {<<"a">>, <<BibTok>>}
MetaBatches ==
  {<<>>} \cup {<<FullChange(t)>> : t \in MetaTexts}
         \cup {<<RangeChange(Pos(0, 0), Pos(0, 1), <<>>), FullChange(<<"a">>)>>}
MetaPositions == {Pos(0, 0), Pos(0, 1)}
MetaNext ==
  \/ Initialize(TRUE, FALSE, FALSE)
  \/ \E t \in MetaTexts : DidOpen(TexUri, t, "latex")
  \/ \E b \in MetaBatches : DidChange(TexUri, b)
  \/ DidClose(TexUri)
  \/ \E pos \in MetaPositions : queue = <<>> /\ Hover(TexUri, pos)
  \/ FsWrite(BibUri, <<"a">>)
  \/ FsDelete(BibUri)

SpecMeta == Init /\ [][MetaNext]_vars

\* C28: a didChange with no content changes is a no-op: the documents,
\* their texts, owners and cursors are as before, and none is added.
EmptyChangeIsNoOp ==
  [][DidChange(TexUri, <<>>) => docs' = docs]_vars

\* C29: after a didChange whose last content change has no range the
\* document's text is the text of that change and its cursor is at 0.
FullReplacementSetsText ==
  [][\A b \in MetaBatches :
       (b # <<>> /\ TexUri \in DOMAIN docs /\ DidChange(TexUri, b)) =>
         /\ docs'[TexUri].text = b[Len(b)].text
         /\ docs'[TexUri].cursor = 0]_vars

\* A hover had put the cursor of main.tex behind its "a"; then the text
\* was replaced, and the cursor is at 0.
ReplacedAfterHover ==
  /\ last.msg = "didChange"
  /\ jobs[1].method = "hover"
  /\ jobs[1].at = <<[text |-> <<"a">>, cursor |-> 1]>>
  /\ docs[TexUri].text = <<BibTok>>
  /\ docs[TexUri].cursor = 0

\* C30: didClose and hover change metadata only: the same documents are
\* there with the same texts and languages; didClose changes at most the
\* owner and hover at most the cursor.
OwnerAndCursorAreMetadata ==
  [][last'.msg \in {"didClose", "hover"} =>
       /\ DOMAIN docs' = DOMAIN docs
       /\ \A u \in DOMAIN docs :
            /\ docs'[u].text = docs[u].text
            /\ docs'[u].language = docs[u].language
            /\ last'.msg = "didClose" => docs'[u].cursor = docs[u].cursor
            /\ last'.msg = "hover" => docs'[u].owner = docs[u].owner]_vars

\* main.tex was closed and then hovered over: the server owns it, its
\* cursor is behind the "a", and its text is what it was.
HoveredAfterClose ==
  /\ last.msg = "hover"
  /\ TexUri \in DOMAIN docs
  /\ docs[TexUri].owner = "Server"
  /\ docs[TexUri].cursor = 1
  /\ docs[TexUri].text = <<"a">>

\* ---------------------------------------------------------- every request
\* A client that sends each request the dispatcher handles (server.rs
\* 852-891) on a document it may have opened, and a pool whose threads run
\* every job to its end.
RequestsNext ==
  \/ Initialize(TRUE, FALSE, FALSE)
  \/ DidOpen(TexUri, <<>>, "latex")
  \/ \E m \in QueryMethods : nextId < ReadIds /\ Query(m, TexUri)
  \/ \E p \in {Pos(0, 0)} : nextId < ReadIds /\ Hover(TexUri, p)
  \/ \E m \in ForkMethods \cup {"workspaceSymbol"} : nextId < ReadIds /\ Feature(m, TexUri)
  \/ nextId < ReadIds /\ Build(TexUri)
  \/ \E v \in ViewerStatuses : nextId < ReadIds /\ ForwardSearch(TexUri, v)
  \/ nextId < ReadIds /\ ExecuteCommand
  \/ nextId < ReadIds /\ InlayHintResolve
  \/ nextId < ReadIds /\ SemanticTokensRange
  \/ \E id \in 1..MaxIds : QueryStart(id)
  \/ \E id \in 1..MaxIds : QueryReply(id)
  \/ \E id \in 1..MaxIds : FeatureRun(id)
  \/ \E id \in 1..MaxIds, ok \in BOOLEAN : ExecuteCommandRun(id, ok)
  \/ \E id \in 1..MaxIds : BuildStart(id)
  \/ \E id \in 1..MaxIds : BuildLock(id)
  \/ \E id \in 1..MaxIds, st \in BuildStatuses : BuildRun(id, st)
  \/ \E id \in 1..MaxIds : BuildSend(id)
  \/ \E id \in 1..MaxIds : BuildUnlock(id)
  \/ \E id \in 1..MaxIds : BuildCallback(id)

\* No worker panics, every compiler ends and every job is run.
RequestsFairness ==
  /\ PoolFairness
  /\ \A id \in 1..MaxIds :
       /\ WF_vars(QueryStart(id))
       /\ WF_vars(QueryReply(id))
       /\ WF_vars(FeatureRun(id))
       /\ WF_vars(\E ok \in BOOLEAN : ExecuteCommandRun(id, ok))

SpecRequests == Init /\ [][RequestsNext]_vars /\ RequestsFairness

\* C32: every request the dispatcher handles between initialization and
\* shutdown gets, in the end, exactly one response with its own id.
EveryRequestAnsweredOnce ==
  /\ [](\A id \in 1..MaxIds : Cardinality(ResponsesAt(id)) <= 1)
  /\ \A id \in 1..MaxIds :
       (jobs[id].pc # "free" /\ jobs[id].reply)
         ~> (Cardinality(ResponsesAt(id)) = 1)

\* ------------------------------------------------------- the Remove event
\* C33: the step that handles a watcher Remove event takes out of the
\* document set the Server-owned documents its paths name and nothing
\* else: every other document stays with the same text, owner and cursor,
\* no document appears, and an event of unknown paths changes nothing.
RemoveTakesOnlyItsDocument ==
  [][FileEventStep({"Remove"}) =>
       LET event == Head(internal)
       IN /\ \A u \in DOMAIN docs :
               IF Names(event, u) /\ docs[u].owner = "Server"
               THEN u \notin DOMAIN docs'
               ELSE u \in DOMAIN docs' /\ docs'[u] = docs[u]
          /\ DOMAIN docs' \subseteq DOMAIN docs
          /\ (\A u \in DOMAIN docs : ~Names(event, u)) => docs' = docs]_vars

\* A Remove event for main.tex, closed by then, took it out of the set and
\* left the other closed document, with its text, where it was.
RemoveLeftTheOthers ==
  /\ last.msg = "Remove"
  /\ last.uris = <<TexUri>>
  /\ TexUri \in opened /\ TexUri \notin DOMAIN docs
  /\ TxtUri \in DOMAIN docs /\ docs[TxtUri].owner = "Server"
  /\ docs[TxtUri].text # <<>>

\* ------------------------------------------------------ the hover's cursor
\* C34: the step that handles a hover on a known document writes the
\* offset of the requested position as the document's cursor and hands the
\* job a snapshot that holds it, and the job's response carries the cursor
\* of that snapshot: the one of its own request.
HoverSeesItsOwnCursor ==
  /\ [][\A u \in ReadUris, pos \in Positions :
          (Hover(u, pos) /\ u \in DOMAIN docs) =>
            LET cursor == OffsetLsp(docs[u].text, pos)
            IN /\ docs'[u].cursor = cursor
               /\ jobs'[nextId'].view[u].cursor = cursor
               /\ jobs'[nextId'].at = <<[text |-> docs[u].text, cursor |-> cursor]>>]_vars
  /\ [][\A id \in 1..MaxIds :
          (jobs[id].method = "hover" /\ jobs[id].pc = "read" /\ jobs'[id].pc = "done") =>
            out' = Append(out, RespOk(id, jobs[id].at))]_vars

\* Two hovers at different places of main.tex were answered, each with
\* the cursor of its own position.
HoverAfterHover ==
  /\ jobs[1].method = "hover" /\ jobs[2].method = "hover"
  /\ RespOk(1, <<[text |-> <<"a">>, cursor |-> 1]>>) \in Responses(1)
  /\ RespOk(2, <<[text |-> <<"a">>, cursor |-> 0]>>) \in Responses(2)

\* ------------------------------------------- didChange of an unknown document
\* The client of the includes, which also sends changes for chapter.tex, a
\* document it never opens and the watcher never loads.
UnknownBatches ==
  {<<>>, <<FullChange(<<BibTok>>)>>, <<RangeChange(Pos(0, 0), Pos(0, 1), <<"a">>)>>}
UnknownNext ==
  \/ IncludeNext
  \/ \E b \in UnknownBatches : DidChange(ChapUri, b)

SpecUnknown == Init /\ [][UnknownNext]_vars

\* C35: a didChange for a URI that names no known document changes
\* nothing: the document set, with every text, owner and cursor, is as
\* before, even when discovery would have loaded a file.
UnknownChangeIsIgnored ==
  [][\A u \in {TexUri, ChapUri}, b \in UnknownBatches \cup {<<FullChange(t)>> : t \in IncludeTexts} :
       (DidChange(u, b) /\ u \notin DOMAIN docs) =>
         /\ docs' = docs
         /\ u \notin DOMAIN docs'
         /\ UNCHANGED <<disk, internal, out, poolVars>>]_vars

\* A change for chapter.tex, unknown, was handled while main.tex had an
\* include that discovery would load from disk: refs.bib is still unloaded.
UnknownChangeWithoutDiscovery ==
  /\ last = [msg |-> "didChange", uris |-> <<ChapUri>>]
  /\ ChapUri \notin DOMAIN docs
  /\ TexUri \in DOMAIN docs
  /\ BibUri \in DOMAIN disk /\ BibUri \notin DOMAIN docs
  /\ Discover(docs, disk) # docs

\* ------------------------------------------------------- the end of run
\* C36: after shutdown and exit, run has returned only when the pool has
\* no job queued or running: every job handed to the pool before is done
\* and its request has its one response.
ExitWaitsForThePool ==
  phase = "exited" =>
    /\ queue = <<>>
    /\ Active = {}
    /\ \A id \in 1..MaxIds :
         jobs[id].uri # "" =>
           /\ jobs[id].pc = "done"
           /\ Cardinality(ResponsesAt(id)) = 1

\* run has returned, and a request dispatched before the shutdown was
\* answered after the shutdown request was: its job ended during the join.
AnsweredDuringJoin ==
  /\ phase = "exited"
  /\ \E id \in 1..MaxIds, s \in 1..MaxIds :
       /\ jobs[id].uri # "" /\ jobs[s].method = "shutdown" /\ id < s
       /\ \E k \in ResponsesAt(id), j \in ResponsesAt(s) : j < k

\* ------------------------------------------- the lock and the build's status
\* C37: the step in which a build job reports its status finds the lock
\* already released by that job, and the step in which a build job puts a
\* ForwardSearch message on the internal channel is taken with the lock
\* held by that job and before its status is reported.
StatusAfterUnlock ==
  [][\A id \in 1..MaxIds :
       (jobs[id].method = "build" /\ jobs[id].pc \notin {"free", "done"}) =>
         /\ jobs'[id].pc = "done" => (lock # id /\ lock' # id)
         /\ (jobs'[id].pc # jobs[id].pc /\ out' # out) =>
              (lock # id /\ lock' # id /\ jobs'[id].pc = "done")
         /\ (jobs'[id].pc # jobs[id].pc /\ Len(internal') > Len(internal)) =>
              /\ lock = id /\ lock' = id
              /\ ResponsesAt(id) = {}
              /\ jobs'[id].pc # "done"]_vars

\* A build request has its status while the ForwardSearch message of its
\* job is still on the internal channel and the lock is free.
ReportedAfterEnqueue ==
  \E id \in 1..MaxIds :
    /\ jobs[id].method = "build" /\ jobs[id].fwd
    /\ ResponsesAt(id) # {}
    /\ lock = 0
    /\ internal = <<[type |-> "ForwardSearch", uri |-> jobs[id].uri]>>

\* ------------------------------------------------- the action manager's calls
\* Two threads that push actions to and take them from one ActionManager.
ActionsNext ==
  \/ \E t \in Callers, a \in ActionValues : PushLock(t, a)
  \/ \E t \in Callers : PushRead(t)
  \/ \E t \in Callers : PushDone(t)
  \/ \E t \in Callers : TakeLock(t)
  \/ \E t \in Callers : TakeReplace(t)
  \/ \E t \in Callers : TakeDone(t)

SpecActions == Init /\ [][ActionsNext]_vars

RECURSIVE PushedIn(_)
\* The actions of the pushes of a part of the log, in the order of the log.
PushedIn(l) ==
  IF l = <<>> THEN <<>>
  ELSE IF Head(l).op = "push" THEN <<Head(l).action>> \o PushedIn(Tail(l))
  ELSE PushedIn(Tail(l))

RECURSIVE TakenIn(_)
\* What the takes of a part of the log returned, one result after the other.
TakenIn(l) ==
  IF l = <<>> THEN <<>>
  ELSE IF Head(l).op = "take" THEN Head(l).result \o TakenIn(Tail(l))
  ELSE TakenIn(Tail(l))

\* The part of the log after its last take.
RECURSIVE SinceTake(_)
SinceTake(l) ==
  IF l = <<>> \/ l[Len(l)].op = "take" THEN <<>>
  ELSE Append(SinceTake(SubSeq(l, 1, Len(l) - 1)), l[Len(l)])

\* C38: a take returns the actions pushed since the take before it, in the
\* order they were pushed, and leaves the vector empty; a take that comes
\* right after a take returns the empty list.
TakeReturnsAllInOrder ==
  [][\A t \in Callers :
       /\ (calls[t].pc = "take" /\ calls'[t].pc = "replaced") => actions' = <<>>
       /\ (calls[t].pc = "replaced" /\ calls'[t].pc = "idle") =>
            /\ log' = Append(log, [op |-> "take", by |-> t, action |-> "",
                                   result |-> PushedIn(SinceTake(log))])
            /\ actions = <<>>
            /\ (log # <<>> /\ log[Len(log)].op = "take") => log'[Len(log')].result = <<>>]_vars

\* Two actions were pushed and a take returned both, first pushed first;
\* the take right after it returned the empty list.
TookBothThenNone ==
  /\ Len(log) = 4
  /\ log[1].op = "push" /\ log[2].op = "push" /\ log[1].action # log[2].action
  /\ log[3].op = "take" /\ log[3].result = <<log[1].action, log[2].action>>
  /\ log[4].op = "take" /\ log[4].result = <<>>

\* The actions that a take has moved out and not yet returned.
MovedOut ==
  IF \E t \in Callers : calls[t].pc = "replaced"
  THEN calls[CHOOSE t \in Callers : calls[t].pc = "replaced"].result
  ELSE <<>>

\* C39: whatever the interleaving of the calls, the actions the takes have
\* returned, followed by those a take is returning and those still in the
\* vector, are the actions pushed, each once and in the order of the
\* pushes; so no action is lost or returned twice and the actions of one
\* thread keep their order.
EachActionTakenOnce ==
  /\ Cardinality({t \in Callers : calls[t].pc \in {"push", "pushing", "take", "replaced"}}) <= 1
  /\ TakenIn(log) \o MovedOut \o actions = PushedIn(log)

\* The two threads pushed one action each and took one result each: the
\* takes returned the two actions between them, each once.
TwoThreadsShared ==
  /\ Len(log) = 4
  /\ \E i, j, k, l \in 1..4 :
       /\ log[i].op = "push" /\ log[i].by = 1
       /\ log[j].op = "push" /\ log[j].by = 2 /\ log[i].action # log[j].action
       /\ log[k].op = "take" /\ log[k].by = 1 /\ log[k].result = <<log[j].action>>
       /\ log[l].op = "take" /\ log[l].by = 2 /\ log[l].result = <<log[i].action>>

\* ------------------------------------------------------ linked components
\* The databases explored: up to MaxComponents components, one at least
\* without file names, whose file names and references are taken from two
\* packages, one of them also a class, and a package no component has.
FileNames ==
  {<<>>, << <<"a", "sty">> >>, << <<"b", "sty">> >>, << <<"a", "sty">>, <<"a", "cls">> >>}
References == {<<>>, << <<"b", "sty">> >>, << <<"a", "cls">>, <<"c", "sty">> >>}
Components == [file_names : FileNames, references : References]
Databases ==
  {db \in UNION {[1..n -> Components] : n \in 1..MaxComponents} :
     \E i \in DOMAIN db : db[i].file_names = <<>>}

\* The links of the TeX documents of a project.
Link(kind, path) == [kind |-> kind, path |-> path]
DocumentLinks ==
  {<<>>, <<Link("Sty", "a")>>, <<Link("Cls", "a")>>, <<Link("Tex", "a")>>,
   <<Link("Sty", "b"), Link("Sty", "a")>>, <<Link("Sty", "c")>>}
Projects == {<<d>> : d \in DocumentLinks} \cup
            {<<d, e>> : d \in {<<Link("Sty", "a")>>, <<Link("Cls", "a")>>},
                        e \in DocumentLinks}

InitComponents == \E a \in [components : Databases, documents : Projects] : Start(a)

\* ComponentDatabase::linked_components applied to arg.
RunComponents ==
  /\ res = <<>>
  /\ res' = <<LinkedComponents(arg.components, arg.documents)>>
  /\ UNCHANGED <<docs, options, caps, distro, workspace, disk, poolVars, internal, out,
                 nextId, phase, opened, last, arg, diagVars, amVars>>

SpecComponents == InitComponents /\ [][RunComponents]_vars

\* The elements of a list.
Range(seq) == {seq[i] : i \in DOMAIN seq}

\* C40: the linked components contain the kernel, the component without
\* file names; no two of them have the same list of file names; and for
\* each package or class linked from a document that the database knows,
\* they contain its component and every component that one references
\* and the database knows.
LinkedComponentsComplete ==
  res # <<>> =>
    LET db == arg.components
        linked == res[1]
    IN /\ \E i \in DOMAIN linked :
            /\ db[linked[i]].file_names = <<>>
            /\ linked[i] = Kernel(db)
       /\ \A i, j \in DOMAIN linked :
            i # j => db[linked[i]].file_names # db[linked[j]].file_names
       /\ \A d \in DOMAIN arg.documents : \A l \in DOMAIN arg.documents[d] :
            LET link == arg.documents[d][l]
                name == <<link.path, IF link.kind = "Sty" THEN "sty" ELSE "cls">>
            IN (link.kind \in {"Sty", "Cls"} /\ Find(db, name) # <<>>) =>
                 /\ Find(db, name)[1] \in Range(linked)
                 /\ \A r \in DOMAIN db[Find(db, name)[1]].references :
                      LET ref == db[Find(db, name)[1]].references[r]
                      IN Find(db, ref) # <<>> => Find(db, ref)[1] \in Range(linked)

\* Two documents both link package a, which references package b: the
\* linked components are b, a and the kernel, each once.
LinkedOnceEach ==
  /\ res # <<>>
  /\ Len(arg.components) = 3
  /\ arg.documents = <<<<Link("Sty", "a")>>, <<Link("Sty", "b"), Link("Sty", "a")>>>>
  /\ arg.components[2] =
       [file_names |-> << <<"a", "sty">> >>, references |-> << <<"b", "sty">> >>]
  /\ arg.components[3].file_names = << <<"b", "sty">> >>
  /\ res[1] = <<3, 2, 1>>

====
